---------------------------- MODULE Spec2Model ----------------------------
(***************************************************************************)
(* A model of the interpreter: the lexer's character state machine         *)
(* (lexer.rs), the recursive-descent / shunting-yard parser (parser.rs),   *)
(* the scope stacks of Context (context.rs) and the tree-walking evaluator *)
(* (ast.rs), the latter as a small-step machine over an explicit stack of  *)
(* activation frames (one frame per active call of ASTree::eval).          *)
(*                                                                         *)
(* Text is a sequence of one-character strings.  A Rust panic (unwrap on   *)
(* None, expect, index out of bounds, arithmetic overflow under overflow   *)
(* checks) is the status "panic": the process aborts, no Result returns.   *)
(***************************************************************************)
EXTENDS Integers, Sequences, FiniteSets, TLC

VARIABLES
  lexer,      \* the Lexer struct: input, index, state, current_token_*
  lexrun,     \* the activation of Lexer::tokenize: its local `tokens`, its outcome
  parser,     \* the Parser struct: tokens, pos
  parseout,   \* the outcome of Parser::parse on it
  machine,    \* the evaluator: the Context and the stack of eval activations
  build,      \* the build profile: TRUE when integer overflow checks are compiled in
  peer,       \* a second evaluation in the same process, on a Context of its own
  identifiers \* the process-wide static IDENTIFIERS of identifiers.rs

vars == <<lexer, lexrun, parser, parseout, machine, build, peer, identifiers>>

\* ------------------------------------------------------------------------
\* Bounds of the model
\* ------------------------------------------------------------------------

\* Longest source text fed to the lexer specification.
MaxSrcLen == 4

\* Longest run of words (before EOF) fed whole to the parser specification.
MaxTokens == 3

\* Longest text given to a Lexer that is being reused.
MaxReuseLen == 1

\* The deepest scope stack SpecCtx builds.
MaxDepth == 3

\* Longest run of digits of which every literal is evaluated by SpecLiteral.
MaxDigits == 2

\* Longest run of symbol characters tokenized by SpecSymbol.
MaxRunLen == 3

\* ------------------------------------------------------------------------
\* Characters
\* ------------------------------------------------------------------------

Digits == {"0", "1", "2", "3", "4", "5", "6", "7", "8", "9"}

Letters ==
  {"a", "b", "c", "d", "e", "f", "g", "h", "i", "j", "k", "l", "m", "n", "o",
   "p", "q", "r", "s", "t", "u", "v", "w", "x", "y", "z",
   "A", "B", "C", "D", "E", "F", "G", "H", "I", "J", "K", "L", "M", "N", "O",
   "P", "Q", "R", "S", "T", "U", "V", "W", "X", "Y", "Z"}

\* char::is_whitespace on the characters of the model
Whitespace == {" ", "\n", "\t"}

\* A character outside ASCII: two bytes in UTF-8, one `char`.
NonAscii == "~e"

\* Number of bytes of a character in the UTF-8 encoding of a String.
Utf8Len(c) == IF c = NonAscii THEN 2 ELSE 1

RECURSIVE ByteLen(_)
\* String::len(): the length of the input in bytes, not in characters.
ByteLen(s) == IF s = <<>> THEN 0 ELSE Utf8Len(Head(s)) + ByteLen(Tail(s))

is_valid_symbol(character) == character \in {"+", "-", "*", "/", "=", "!", "&", "|"}

is_ascii_digit(character) == character \in Digits

is_ascii_alphabetic(character) == character \in Letters

is_ascii_alphanumeric(character) == character \in (Letters \cup Digits)

is_whitespace(character) == character \in Whitespace

\* ------------------------------------------------------------------------
\* Tokens
\* ------------------------------------------------------------------------

Token(token_type, value, position) ==
  [type |-> token_type, value |-> value, pos |-> position]

\* ------------------------------------------------------------------------
\* Lexer
\* ------------------------------------------------------------------------

NoLexErr == [kind |-> "", text |-> <<>>, pos |-> 0]

LexErr(kind, text, position) == [kind |-> kind, text |-> text, pos |-> position]

\* Lexer::new()
LexerNew ==
  [input |-> <<>>, index |-> 0, state |-> "NONE",
   current_token_string |-> <<>>, current_token_position |-> 0]

\* A faulty set_input: the text of the token in progress is kept.
set_input_keeping(lx, input) ==
  [lx EXCEPT !.input = input, !.index = 0, !.state = "NONE",
             !.current_token_position = 0]

\* Lexer::set_input
set_input(lx, input) ==
  [input |-> input, index |-> 0, state |-> "NONE",
   current_token_string |-> <<>>, current_token_position |-> 0]

\* No activation of tokenize.
LexIdle == [status |-> "idle", tokens |-> <<>>, err |-> NoLexErr]

\* Entry of tokenize: `let mut tokens = Vec::new()`.
LexStart == [status |-> "running", tokens |-> <<>>, err |-> NoLexErr]

\* The pair (lexer, activation) after a step.
LexPair(lx, rn) == [lexer |-> lx, run |-> rn]

LexFail(lx, rn, kind, text, position) ==
  LexPair(lx, [rn EXCEPT !.status = "err", !.tokens = <<>>,
                         !.err = LexErr(kind, text, position)])

LexPanic(lx, rn) ==
  LexPair(lx, [rn EXCEPT !.status = "panic", !.tokens = <<>>])

\* emit_number_token / emit_string_token: push, clear, state NONE.
emit_token(lx, rn, token_type) ==
  LexPair([lx EXCEPT !.current_token_string = <<>>, !.state = "NONE"],
          [rn EXCEPT !.tokens = Append(@, Token(token_type, lx.current_token_string,
                                                lx.current_token_position))])

emit_number_token(lx, rn) == emit_token(lx, rn, "NUMERIC")

emit_string_token(lx, rn) == emit_token(lx, rn, "STRING")

KeywordType(text) ==
  CASE text = <<"i", "f">> -> "IF"
    [] text = <<"w", "h", "i", "l", "e">> -> "WHILE"
    [] text = <<"f", "o", "r">> -> "FOR"
    [] text = <<"e", "l", "s", "e">> -> "ELSE"
    [] text = <<"f", "n">> -> "FN"
    [] OTHER -> "IDENTIFIER"

emit_identifier_token(lx, rn) ==
  emit_token(lx, rn, KeywordType(lx.current_token_string))

BinaryOpTexts ==
  {<<"+">>, <<"-">>, <<"*">>, <<"/">>, <<"=", "=">>, <<"!", "=">>,
   <<"&", "&">>, <<"|", "|">>}

emit_symbol_token(lx, rn) ==
  IF lx.current_token_string \in BinaryOpTexts
    THEN emit_token(lx, rn, "BINARYOP")
    ELSE IF lx.current_token_string = <<"=">>
      THEN emit_token(lx, rn, "ASSIGN")
      ELSE LexFail(lx, rn, "InvalidSymbol", lx.current_token_string,
                   lx.current_token_position)

PunctType(character) ==
  CASE character = "{" -> "LBRACE"
    [] character = "}" -> "RBRACE"
    [] character = "(" -> "LPAREN"
    [] character = ")" -> "RPAREN"
    [] character = "," -> "COMMA"

\* One turn of the loop of tokenize in state NONE on `character`.
LexStepNONE(lx, rn, character) ==
  IF is_ascii_digit(character)
    THEN LexPair([lx EXCEPT !.state = "NUMBER", !.current_token_position = lx.index], rn)
  ELSE IF is_ascii_alphabetic(character) \/ character = "_"
    THEN LexPair([lx EXCEPT !.state = "IDENTIFIER", !.current_token_position = lx.index], rn)
  ELSE IF is_valid_symbol(character)
    THEN LexPair([lx EXCEPT !.state = "SYMBOL", !.current_token_position = lx.index], rn)
  ELSE IF is_whitespace(character)
    THEN LexPair([lx EXCEPT !.index = @ + 1], rn)
  ELSE IF character = "\""
    THEN LexPair([lx EXCEPT !.index = @ + 1, !.state = "STRING",
                            !.current_token_position = lx.index + 1], rn)
  ELSE IF character \in {"{", "}", "(", ")", ","}
    THEN LexPair([lx EXCEPT !.index = @ + 1],
                 [rn EXCEPT !.tokens = Append(@, Token(PunctType(character),
                                                       <<character>>, lx.index))])
  ELSE LexFail(lx, rn, "InvalidCharacter", <<character>>, lx.index)

LexPush(lx, rn, character) ==
  LexPair([lx EXCEPT !.current_token_string = Append(@, character), !.index = @ + 1], rn)

LexStepNUMBER(lx, rn, character) ==
  IF ~is_ascii_digit(character) THEN emit_number_token(lx, rn)
                                ELSE LexPush(lx, rn, character)

LexStepIDENTIFIER(lx, rn, character) ==
  IF ~(is_ascii_alphanumeric(character) \/ character = "_")
    THEN emit_identifier_token(lx, rn)
    ELSE LexPush(lx, rn, character)

LexStepSTRING(lx, rn, character) ==
  IF character = "\""
    THEN LET e == emit_string_token(lx, rn)
         IN  LexPair([e.lexer EXCEPT !.index = @ + 1], e.run)
    ELSE LexPush(lx, rn, character)

\* A faulty SYMBOL state: the run is cut as soon as it is an operator that
\* the next character would not extend to one.
LexStepSYMBOL_splitting(lx, rn, character) ==
  LET valid == BinaryOpTexts \cup {<<"=">>}
  IN  IF \/ ~is_valid_symbol(character)
         \/ /\ lx.current_token_string \in valid
            /\ Append(lx.current_token_string, character) \notin valid
        THEN emit_symbol_token(lx, rn)
        ELSE LexPush(lx, rn, character)

LexStepSYMBOL(lx, rn, character) ==
  IF ~is_valid_symbol(character) THEN emit_symbol_token(lx, rn)
                                 ELSE LexPush(lx, rn, character)

\* A faulty end of tokenize: EOF is pushed over the token in progress.
LexFlush_unflushed(lx, rn) ==
  LexPair(lx, [rn EXCEPT !.status = "ok",
                         !.tokens = Append(@, Token("EOF", <<>>, lx.index))])

\* The code after the loop: flush the token in progress, push EOF, return Ok.
LexFlush(lx, rn) ==
  LET flushed ==
        IF lx.current_token_string # <<>>
          THEN CASE lx.state = "NUMBER" -> emit_number_token(lx, rn)
                 [] lx.state = "IDENTIFIER" -> emit_identifier_token(lx, rn)
                 [] lx.state = "STRING" ->
                      LexFail(lx, rn, "UnterminatedString", <<>>,
                              lx.current_token_position)
                 [] lx.state = "SYMBOL" -> emit_symbol_token(lx, rn)
                 [] lx.state = "NONE" -> LexPair(lx, rn)
          ELSE LexPair(lx, rn)
  IN  IF flushed.run.status # "running"
        THEN flushed
        ELSE LexPair(flushed.lexer,
                     [flushed.run EXCEPT
                        !.status = "ok",
                        !.tokens = Append(@, Token("EOF", <<>>, flushed.lexer.index))])

\* `while self.index < self.input.len()`: the bound is the length in bytes.
LexInLoop(lx) == lx.index < ByteLen(lx.input)

\* `self.input.chars().nth(self.index).unwrap()` finds a character.
LexHasChar(lx) == lx.index < Len(lx.input)

LexChar(lx) == lx.input[lx.index + 1]

\* One turn of the loop of tokenize, or the code after it.
TokenizeStep(lx, rn) ==
  IF ~LexInLoop(lx) THEN LexFlush(lx, rn)
  ELSE IF ~LexHasChar(lx) THEN LexPanic(lx, rn)
  ELSE CASE lx.state = "NONE" -> LexStepNONE(lx, rn, LexChar(lx))
         [] lx.state = "NUMBER" -> LexStepNUMBER(lx, rn, LexChar(lx))
         [] lx.state = "IDENTIFIER" -> LexStepIDENTIFIER(lx, rn, LexChar(lx))
         [] lx.state = "STRING" -> LexStepSTRING(lx, rn, LexChar(lx))
         [] lx.state = "SYMBOL" -> LexStepSYMBOL(lx, rn, LexChar(lx))

RECURSIVE TokenizeRun(_, _)
\* tokenize() run to its end from a lexer state.
TokenizeRun(lx, rn) ==
  IF rn.status # "running" THEN LexPair(lx, rn)
  ELSE LET p == TokenizeStep(lx, rn) IN TokenizeRun(p.lexer, p.run)

\* set_input(src) then tokenize() on a fresh Lexer, as `interpret` does.
Tokenize(src) == TokenizeRun(set_input(LexerNew, src), LexStart).run

\* ------------------------------------------------------------------------
\* AST nodes
\* ------------------------------------------------------------------------

\* ASTree::new
ASTreeNew(token) == [token |-> token, children |-> <<>>]

\* ASTree::append
append(node, child) == [node EXCEPT !.children = Append(@, child)]

NullToken == Token("", <<>>, 0)

NullNode == ASTreeNew(NullToken)

\* ------------------------------------------------------------------------
\* Parser: every function takes the token vector and the cursor `pos` and
\* returns its outcome with the cursor after it.
\* ------------------------------------------------------------------------

NoParseErr == [kind |-> "", pos |-> 0, expected |-> "", found |-> ""]

ParseErr(kind, position, expected, found) ==
  [kind |-> kind, pos |-> position, expected |-> expected, found |-> found]

POk(out, pos) == [status |-> "ok", out |-> out, pos |-> pos, err |-> NoParseErr]

PErr(err, pos) == [status |-> "err", out |-> <<>>, pos |-> pos, err |-> err]

\* A panic names its cause in err.kind.
PPanic(cause, pos) ==
  [status |-> "panic", out |-> <<>>, pos |-> pos, err |-> ParseErr(cause, 0, "", "")]

\* An outcome handed on to the caller by `?` (or by the unwinding of a panic).
PFail(r) == [status |-> r.status, out |-> <<>>, pos |-> r.pos, err |-> r.err]

\* `self.tokens[self.pos]` is inside the vector.
InTokens(tokens, pos) == pos < Len(tokens)

peek(tokens, pos) == tokens[pos + 1]

\* peek_next().is_some() && peek_next().get_type() == token_type
peek_next_is(tokens, pos, token_type) ==
  pos + 1 < Len(tokens) /\ tokens[pos + 2].type = token_type

\* advance: the token under the cursor, the cursor one further.
advance(tokens, pos) ==
  IF ~InTokens(tokens, pos) THEN PPanic("IndexOutOfBounds", pos)
  ELSE POk(tokens[pos + 1], pos + 1)

consume(tokens, pos, token_type) ==
  IF ~InTokens(tokens, pos) THEN PPanic("IndexOutOfBounds", pos)
  ELSE IF peek(tokens, pos).type # token_type
    THEN PErr(ParseErr("Expected", peek(tokens, pos).pos, token_type,
                       peek(tokens, pos).type), pos)
    ELSE advance(tokens, pos)

\* The operators match_operator_to_priority knows; 0 stands for its panic.
match_operator_to_priority(operator) ==
  CASE operator \in {<<"=", "=">>, <<"!", "=">>, <<"&", "&">>, <<"|", "|">>} -> 1
    [] operator \in {<<"+">>, <<"-">>} -> 2
    [] operator \in {<<"/">>, <<"*">>} -> 3
    [] OTHER -> 0

\* ShuntingType: [kind, priority]
convert_to_shunting_type(token) ==
  CASE token.type \in {"NUMERIC", "IDENTIFIER", "STRING"} ->
         [kind |-> "OPERAND", priority |-> 0]
    [] token.type = "BINARYOP" ->
         [kind |-> "OPERATOR", priority |-> match_operator_to_priority(token.value)]
    [] OTHER -> [kind |-> "END", priority |-> 0]

RECURSIVE PopOperators_strict(_, _, _)
\* A faulty PopOperators: it pops only the operators of strictly greater
\* priority (`val <` for `val <=`), which groups equal priorities to the right.
PopOperators_strict(output, operator_stack, val) ==
  IF Len(operator_stack) > 0
       /\ val < match_operator_to_priority(operator_stack[Len(operator_stack)].value)
    THEN PopOperators_strict(
           Append(output, ASTreeNew(operator_stack[Len(operator_stack)])),
           SubSeq(operator_stack, 1, Len(operator_stack) - 1), val)
    ELSE [output |-> output, operator_stack |-> operator_stack]

RECURSIVE PopOperators(_, _, _)
\* `while operator_stack.len() > 0 && val <= priority(top)`: pop to the output.
PopOperators(output, operator_stack, val) ==
  IF Len(operator_stack) > 0
       /\ val <= match_operator_to_priority(operator_stack[Len(operator_stack)].value)
    THEN PopOperators(Append(output, ASTreeNew(operator_stack[Len(operator_stack)])),
                      SubSeq(operator_stack, 1, Len(operator_stack) - 1), val)
    ELSE [output |-> output, operator_stack |-> operator_stack]

RECURSIVE DrainOperators(_, _)
\* `while !operator_stack.is_empty()`: pop every operator to the output.
DrainOperators(output, operator_stack) ==
  IF operator_stack = <<>> THEN output
  ELSE DrainOperators(Append(output, ASTreeNew(operator_stack[Len(operator_stack)])),
                      SubSeq(operator_stack, 1, Len(operator_stack) - 1))

RECURSIVE FoldPostfix(_, _)
\* The `for tree in postfix_expression` loop of parse_expression; the result
\* is the operand stack, or "panic" when an `expect` finds no operand.
FoldPostfix(postfix, output) ==
  IF postfix = <<>> THEN [status |-> "ok", output |-> output]
  ELSE IF Head(postfix).token.type = "BINARYOP"
    THEN IF Len(output) < 2
           THEN [status |-> "panic", output |-> output]
           ELSE LET right == output[Len(output)]
                    left == output[Len(output) - 1]
                    operator_node == append(append(Head(postfix), left), right)
                IN  FoldPostfix(Tail(postfix),
                                Append(SubSeq(output, 1, Len(output) - 2), operator_node))
    ELSE FoldPostfix(Tail(postfix), Append(output, Head(postfix)))

\* `r?` then the rest of the function, K, on the value r holds.
Then(r, K(_)) == IF r.status # "ok" THEN PFail(r) ELSE K(r)

\* The rest of a function, K, once `self.tokens[pos]` is known to exist.
AtToken(tokens, pos, K(_)) ==
  IF ~InTokens(tokens, pos) THEN PPanic("IndexOutOfBounds", pos) ELSE K(peek(tokens, pos))

RECURSIVE shunting_loop(_, _, _, _, _)
RECURSIVE parse_expression(_, _)
RECURSIVE fn_call_args(_, _, _)
RECURSIVE parse_fn_call(_, _)
RECURSIVE parse_statement(_, _)
RECURSIVE block_loop(_, _, _)
RECURSIVE parse_block(_, _, _, _)

\* A faulty OPERATOR arm: the kind of the previous token is not looked at.
shunting_operator_unchecked(tokens, pos, output, operator_stack, prev, token, val) ==
  IF val = 0 THEN PPanic("UnsupportedOperator", pos)
  ELSE shunting_loop(tokens, pos + 1,
                     PopOperators(output, operator_stack, val).output,
                     Append(PopOperators(output, operator_stack, val).operator_stack,
                            token),
                     "OPERATOR")

\* The OPERATOR(val) arm of the loop of shunting_yard.
shunting_operator(tokens, pos, output, operator_stack, prev, token, val) ==
  IF val = 0 THEN PPanic("UnsupportedOperator", pos)
  ELSE IF prev = "OPERATOR"
    THEN PErr(ParseErr("InvalidOperatorPlacement", token.pos, "", ""), pos)
    ELSE shunting_loop(tokens, pos + 1,
                       PopOperators(output, operator_stack, val).output,
                       Append(PopOperators(output, operator_stack, val).operator_stack,
                              token),
                       "OPERATOR")

\* The OPERAND arm of the loop of shunting_yard.
shunting_operand(tokens, pos, output, operator_stack, prev, token) ==
  IF prev = "OPERAND" THEN POk(DrainOperators(output, operator_stack), pos)
  ELSE IF peek_next_is(tokens, pos, "LPAREN")
    THEN Then(parse_fn_call(tokens, pos), LAMBDA call :
           shunting_loop(tokens, call.pos, Append(output, call.out), operator_stack,
                         "OPERAND"))
    ELSE shunting_loop(tokens, pos + 1, Append(output, ASTreeNew(token)),
                       operator_stack, "OPERAND")

\* The `loop` of shunting_yard, then the draining of the operator stack;
\* prev is the kind of the previous ShuntingType.
shunting_loop(tokens, pos, output, operator_stack, prev) ==
  AtToken(tokens, pos, LAMBDA token :
    CASE convert_to_shunting_type(token).kind = "OPERATOR" ->
           shunting_operator(tokens, pos, output, operator_stack, prev, token,
                             convert_to_shunting_type(token).priority)
      [] convert_to_shunting_type(token).kind = "OPERAND" ->
           shunting_operand(tokens, pos, output, operator_stack, prev, token)
      [] OTHER -> POk(DrainOperators(output, operator_stack), pos))

\* prev starts as OPERATOR(0): an expression cannot begin with an operator.
shunting_yard(tokens, pos) == shunting_loop(tokens, pos, <<>>, <<>>, "OPERATOR")

\* parse_expression after the fold of the postfix sequence.
expression_result(tokens, pos, folded) ==
  IF folded.status = "panic" THEN PPanic("InsufficientOperands", pos)
  ELSE IF Len(folded.output) = 0
    THEN AtToken(tokens, pos, LAMBDA token :
           PErr(ParseErr("ExpectedExpression", token.pos, "", ""), pos))
  ELSE IF Len(folded.output) = 1 THEN POk(folded.output[1], pos)
  ELSE PErr(ParseErr("NotSingular", 0, "", ""), pos)

parse_expression(tokens, pos) ==
  Then(shunting_yard(tokens, pos), LAMBDA postfix_expression :
    expression_result(tokens, postfix_expression.pos,
                      FoldPostfix(postfix_expression.out, <<>>)))

\* `while matches!(peek, COMMA) { consume(COMMA); append(parse_expression) }`
fn_call_args(tokens, pos, output) ==
  AtToken(tokens, pos, LAMBDA token :
    IF token.type = "COMMA"
      THEN Then(parse_expression(tokens, pos + 1), LAMBDA arg :
             fn_call_args(tokens, arg.pos, append(output, arg.out)))
      ELSE POk(output, pos))

\* `if !matches!(peek, RPAREN) { output.append(self.parse_expression()?) }`
fn_call_first_arg(tokens, pos, output) ==
  AtToken(tokens, pos, LAMBDA token :
    IF token.type # "RPAREN"
      THEN Then(parse_expression(tokens, pos), LAMBDA arg :
             POk(append(output, arg.out), arg.pos))
      ELSE POk(output, pos))

parse_fn_call(tokens, pos) ==
  Then(consume(tokens, pos, "IDENTIFIER"), LAMBDA ident :
  Then(consume(tokens, ident.pos, "LPAREN"), LAMBDA lparen :
  Then(fn_call_first_arg(tokens, lparen.pos, ASTreeNew(ident.out)), LAMBDA first :
  Then(fn_call_args(tokens, first.pos, first.out), LAMBDA rest :
  Then(consume(tokens, rest.pos, "RPAREN"), LAMBDA rparen :
    POk(rest.out, rparen.pos))))))

parse_assign(tokens, pos) ==
  Then(consume(tokens, pos, "IDENTIFIER"), LAMBDA ident :
  Then(consume(tokens, ident.pos, "ASSIGN"), LAMBDA assign :
  Then(parse_statement(tokens, assign.pos), LAMBDA value :
    POk(append(append(ASTreeNew(assign.out), ASTreeNew(ident.out)), value.out),
        value.pos))))

\* `while !matches!(peek, RBRACE) { append(parse_statement) }; advance()`
block_loop(tokens, pos, output) ==
  AtToken(tokens, pos, LAMBDA token :
    IF token.type # "RBRACE"
      THEN Then(parse_statement(tokens, pos), LAMBDA stmt :
             block_loop(tokens, stmt.pos, append(output, stmt.out)))
      ELSE POk(output, pos + 1))

\* A faulty parse_block: the block never asks for a scope of its own.
parse_block_unscoped(tokens, pos, name, scoped) ==
  AtToken(tokens, pos, LAMBDA token :
  Then(consume(tokens, pos, "LBRACE"), LAMBDA lbrace :
    block_loop(tokens, lbrace.pos,
               ASTreeNew(Token("BLOCK(false)", <<name>>, token.pos)))))

\* The block's token is BLOCK(scoped), its text the block's name.
parse_block(tokens, pos, name, scoped) ==
  AtToken(tokens, pos, LAMBDA token :
  Then(consume(tokens, pos, "LBRACE"), LAMBDA lbrace :
    block_loop(tokens, lbrace.pos,
               ASTreeNew(Token(IF scoped THEN "BLOCK(true)" ELSE "BLOCK(false)",
                               <<name>>, token.pos)))))

\* consume(LPAREN), parse_expression, consume(RPAREN), a scoped block:
\* the part parse_if and parse_while share, appended to `output`.
parse_condition_and_block(tokens, pos, output, name) ==
  Then(consume(tokens, pos, "LPAREN"), LAMBDA lparen :
  Then(parse_expression(tokens, lparen.pos), LAMBDA cond :
  Then(consume(tokens, cond.pos, "RPAREN"), LAMBDA rparen :
  Then(parse_block(tokens, rparen.pos, name, TRUE), LAMBDA block :
    POk(append(append(output, cond.out), block.out), block.pos)))))

\* `if matches!(peek, ELSE) { advance(); append(parse_block("else_block")) }`
parse_else(tokens, pos, output) ==
  AtToken(tokens, pos, LAMBDA token :
    IF token.type = "ELSE"
      THEN Then(parse_block(tokens, pos + 1, "else_block", TRUE), LAMBDA block :
             POk(append(output, block.out), block.pos))
      ELSE POk(output, pos))

parse_if(tokens, pos) ==
  Then(consume(tokens, pos, "IF"), LAMBDA kw :
  Then(parse_condition_and_block(tokens, kw.pos, ASTreeNew(kw.out), "if_block"),
       LAMBDA then : parse_else(tokens, then.pos, then.out)))

parse_while(tokens, pos) ==
  Then(consume(tokens, pos, "WHILE"), LAMBDA kw :
    parse_condition_and_block(tokens, kw.pos, ASTreeNew(kw.out), "while_block"))

RECURSIVE fn_def_params(_, _, _)
\* `while matches!(peek, COMMA) { consume(COMMA); append(consume(IDENTIFIER)) }`
fn_def_params(tokens, pos, output) ==
  AtToken(tokens, pos, LAMBDA token :
    IF token.type = "COMMA"
      THEN Then(consume(tokens, pos + 1, "IDENTIFIER"), LAMBDA param :
             fn_def_params(tokens, param.pos, append(output, ASTreeNew(param.out))))
      ELSE POk(output, pos))

\* `if matches!(peek, IDENTIFIER) { append(consume(IDENTIFIER)) }`
fn_def_first_param(tokens, pos, output) ==
  AtToken(tokens, pos, LAMBDA token :
    IF token.type = "IDENTIFIER" THEN POk(append(output, ASTreeNew(token)), pos + 1)
                                 ELSE POk(output, pos))

parse_fn_def(tokens, pos) ==
  Then(consume(tokens, pos, "FN"), LAMBDA kw :
  Then(consume(tokens, kw.pos, "IDENTIFIER"), LAMBDA name :
  Then(consume(tokens, name.pos, "LPAREN"), LAMBDA lparen :
  Then(fn_def_first_param(tokens, lparen.pos,
                          append(ASTreeNew(kw.out), ASTreeNew(name.out))),
       LAMBDA first :
  Then(fn_def_params(tokens, first.pos, first.out), LAMBDA params :
  Then(consume(tokens, params.pos, "RPAREN"), LAMBDA rparen :
  Then(parse_block(tokens, rparen.pos, "fn_body_block", FALSE), LAMBDA body :
    POk(append(params.out, body.out), body.pos))))))))

parse_statement(tokens, pos) ==
  AtToken(tokens, pos, LAMBDA token :
    CASE token.type = "IF" -> parse_if(tokens, pos)
      [] token.type = "WHILE" -> parse_while(tokens, pos)
      [] token.type = "FN" -> parse_fn_def(tokens, pos)
      [] token.type = "EOF" -> PErr(ParseErr("ParseEOF", 0, "", ""), pos)
      [] token.type = "LBRACE" -> parse_block(tokens, pos, "sub_block", TRUE)
      [] token.type = "IDENTIFIER" /\ peek_next_is(tokens, pos, "ASSIGN") ->
           parse_assign(tokens, pos)
      [] OTHER -> parse_expression(tokens, pos))

RECURSIVE parse_loop(_, _, _)
\* `while !matches!(peek, EOF) { output.append(self.parse_statement()?) }`
parse_loop(tokens, pos, output) ==
  AtToken(tokens, pos, LAMBDA token :
    IF token.type # "EOF"
      THEN Then(parse_statement(tokens, pos), LAMBDA stmt :
             parse_loop(tokens, stmt.pos, append(output, stmt.out)))
      ELSE POk(output, pos))

\* Parser::parse on a Parser whose tokens were set and whose pos is 0.
parse(tokens) ==
  parse_loop(tokens, 0, ASTreeNew(Token("BLOCK(true)", <<"global_block">>, 0)))

\* ------------------------------------------------------------------------
\* Runtime values and results
\* ------------------------------------------------------------------------

\* RuntimeValue: the tag t and one payload field per variant.
INTEGER(n) == [t |-> "INTEGER", i |-> n, s |-> <<>>, b |-> FALSE]

STRINGVAL(text) == [t |-> "STRING", i |-> 0, s |-> text, b |-> FALSE]

BOOL(flag) == [t |-> "BOOL", i |-> 0, s |-> <<>>, b |-> flag]

NULL == [t |-> "NULL", i |-> 0, s |-> <<>>, b |-> FALSE]

NoEvalErr == [kind |-> "", name |-> <<>>, pos |-> 0, left |-> NULL, right |-> NULL]

\* The content of an error message: its kind, the name and position it
\* prints, and for a type mismatch the two operands it prints.
EvalErr(kind, name, position, left, right) ==
  [kind |-> kind, name |-> name, pos |-> position, left |-> left, right |-> right]

\* Result<RuntimeValue, String>, and "Panic" for a call that never returns.
Ok(value) == [tag |-> "Ok", val |-> value, err |-> NoEvalErr]

Err(kind, name, position) ==
  [tag |-> "Err", val |-> NULL, err |-> EvalErr(kind, name, position, NULL, NULL)]

ErrMismatch(name, position, left, right) ==
  [tag |-> "Err", val |-> NULL,
   err |-> EvalErr("TypeMismatch", name, position, left, right)]

Panic == [tag |-> "Panic", val |-> NULL, err |-> NoEvalErr]

NoResult == [tag |-> "None", val |-> NULL, err |-> NoEvalErr]

\* ------------------------------------------------------------------------
\* 32-bit signed integers
\* ------------------------------------------------------------------------

I32_MAX == 2147483647

I32_MIN == -I32_MAX - 1

DigitValue(c) ==
  CASE c = "0" -> 0 [] c = "1" -> 1 [] c = "2" -> 2 [] c = "3" -> 3 [] c = "4" -> 4
    [] c = "5" -> 5 [] c = "6" -> 6 [] c = "7" -> 7 [] c = "8" -> 8 [] c = "9" -> 9

RECURSIVE ParseDigits_strict(_, _)
\* A faulty parse: the largest value that fits is taken for an overflow.
ParseDigits_strict(text, acc) ==
  IF text = <<>> THEN acc
  ELSE LET d == DigitValue(Head(text))
       IN  IF acc >= (I32_MAX - d) \div 10 THEN -1
           ELSE ParseDigits_strict(Tail(text), acc * 10 + d)

RECURSIVE ParseDigits(_, _)
\* str::parse::<i32> on a run of digits: the value, or -1 when it does not fit.
ParseDigits(text, acc) ==
  IF text = <<>> THEN acc
  ELSE LET d == DigitValue(Head(text))
       IN  IF acc > (I32_MAX - d) \div 10 THEN -1
           ELSE ParseDigits(Tail(text), acc * 10 + d)

\* The NUMERIC arm of eval.
parse_i32(text) ==
  IF text = <<>> \/ \E k \in 1..Len(text) : text[k] \notin Digits
    THEN Err("ParseInt", text, 0)
    ELSE IF ParseDigits(text, 0) < 0 THEN Err("ParseInt", text, 0)
         ELSE Ok(INTEGER(ParseDigits(text, 0)))

AddOverflows(a, b) ==
  \/ b > 0 /\ a > I32_MAX - b
  \/ b < 0 /\ a < I32_MIN - b

\* a + b modulo 2^32, as a signed value.
WrappingAdd(a, b) ==
  IF b > 0 /\ a > I32_MAX - b THEN (a - I32_MAX - 1) + (b - I32_MAX - 1)
  ELSE IF b < 0 /\ a < I32_MIN - b THEN (a + I32_MAX + 1) + (b + I32_MAX + 1)
  ELSE a + b

SubOverflows(a, b) ==
  \/ b < 0 /\ a > I32_MAX + b
  \/ b > 0 /\ a < I32_MIN + b

\* a - b modulo 2^32, as a signed value.
WrappingSub(a, b) ==
  IF b < 0 /\ a > I32_MAX + b THEN (a - I32_MAX - 1) - (b + I32_MAX + 1)
  ELSE IF b > 0 /\ a < I32_MIN + b THEN (a + I32_MAX + 1) - (b - I32_MAX - 1)
  ELSE a - b

\* |a| for a # I32_MIN
Abs(a) == IF a < 0 THEN -a ELSE a

MulOverflows(a, b) ==
  IF a = 0 \/ b = 0 \/ a = 1 \/ b = 1 THEN FALSE
  ELSE IF a = I32_MIN \/ b = I32_MIN THEN TRUE
  ELSE IF (a < 0) = (b < 0) THEN Abs(a) > I32_MAX \div Abs(b)
  ELSE IF Abs(b) = 1 THEN FALSE
  ELSE Abs(a) > (I32_MAX \div Abs(b))
                  + (IF I32_MAX % Abs(b) = Abs(b) - 1 THEN 1 ELSE 0)

\* x * y modulo 2^16 for x, y in 0..65535, without leaving 32 bits.
MulLow16(x, y) == ((((x * (y \div 256)) % 256) * 256) + x * (y % 256)) % 65536

\* x * y divided by 2^16 for x, y in 0..65535, without leaving 32 bits.
MulHigh16(x, y) ==
  LET p == x * (y \div 256)
      q == x * (y % 256)
  IN  (p \div 256) + (((p % 256) * 256 + q) \div 65536)

\* a * b modulo 2^32, as a signed value, from the 16-bit halves of a and b.
WrappingMul(a, b) ==
  LET a0 == a % 65536
      a1 == (a \div 65536) % 65536
      b0 == b % 65536
      b1 == (b \div 65536) % 65536
      lo == MulLow16(a0, b0)
      hi == (MulHigh16(a0, b0) + MulLow16(a1, b0) + MulLow16(a0, b1)) % 65536
  IN  IF hi >= 32768 THEN (hi - 65536) * 65536 + lo ELSE hi * 65536 + lo

\* Rust's `/` on integers: the quotient rounded toward zero (b # 0, no overflow).
\* Computed on magnitudes, so that no intermediate value leaves 32 bits.
TruncDiv(a, b) ==
  IF b = I32_MIN THEN (IF a = I32_MIN THEN 1 ELSE 0)
  ELSE IF a = I32_MIN
    THEN LET q == Abs(a + Abs(b)) \div Abs(b)
         IN  IF b > 0 THEN (0 - q) - 1 ELSE q + 1
  ELSE IF (a < 0) = (b < 0) THEN Abs(a) \div Abs(b)
  ELSE 0 - (Abs(a) \div Abs(b))

\* An arithmetic result under the build's overflow policy: a panic with
\* overflow checks, the wrapped value without.
Checked(overflows, wrapped, checks) ==
  IF overflows /\ checks THEN Panic ELSE Ok(INTEGER(wrapped))

\* ------------------------------------------------------------------------
\* Binary operations
\* ------------------------------------------------------------------------

\* A faulty eval_binop_ints: `/` without the test of the divisor, so that
\* `val1 / val2` panics on a zero divisor.
eval_binop_ints_unguarded(token, val1, val2, checks) ==
  CASE token.value = <<"+">> -> Checked(AddOverflows(val1, val2), WrappingAdd(val1, val2), checks)
    [] token.value = <<"-">> -> Checked(SubOverflows(val1, val2), WrappingSub(val1, val2), checks)
    [] token.value = <<"*">> -> Checked(MulOverflows(val1, val2), WrappingMul(val1, val2), checks)
    [] token.value = <<"/">> ->
         IF val2 = 0 \/ (val1 = I32_MIN /\ val2 = -1) THEN Panic
         ELSE Ok(INTEGER(TruncDiv(val1, val2)))
    [] token.value = <<"=", "=">> -> Ok(BOOL(val1 = val2))
    [] token.value = <<"!", "=">> -> Ok(BOOL(val1 # val2))
    [] OTHER -> Err("UnsupportedBetweenIntegers", token.value, token.pos)

eval_binop_ints(token, val1, val2, checks) ==
  CASE token.value = <<"+">> -> Checked(AddOverflows(val1, val2), WrappingAdd(val1, val2), checks)
    [] token.value = <<"-">> -> Checked(SubOverflows(val1, val2), WrappingSub(val1, val2), checks)
    [] token.value = <<"*">> -> Checked(MulOverflows(val1, val2), WrappingMul(val1, val2), checks)
    [] token.value = <<"/">> ->
         IF val2 = 0 THEN Err("DivisionByZero", token.value, token.pos)
         ELSE IF val1 = I32_MIN /\ val2 = -1 THEN Panic
         ELSE Ok(INTEGER(TruncDiv(val1, val2)))
    [] token.value = <<"=", "=">> -> Ok(BOOL(val1 = val2))
    [] token.value = <<"!", "=">> -> Ok(BOOL(val1 # val2))
    [] OTHER -> Err("UnsupportedBetweenIntegers", token.value, token.pos)

\* A faulty eval_binop_bools: it also compares booleans with `==` and `!=`.
eval_binop_bools_comparing(token, val1, val2) ==
  CASE token.value = <<"&", "&">> -> Ok(BOOL(val1 /\ val2))
    [] token.value = <<"|", "|">> -> Ok(BOOL(val1 \/ val2))
    [] token.value = <<"=", "=">> -> Ok(BOOL(val1 = val2))
    [] token.value = <<"!", "=">> -> Ok(BOOL(val1 # val2))
    [] OTHER -> Err("UnsupportedBetweenBooleans", token.value, token.pos)

\* The three "Unsupported binary operator: '{}' between integers / booleans /
\* strings, at position: {}" messages are the kinds UnsupportedBetween*.
eval_binop_bools(token, val1, val2) ==
  CASE token.value = <<"&", "&">> -> Ok(BOOL(val1 /\ val2))
    [] token.value = <<"|", "|">> -> Ok(BOOL(val1 \/ val2))
    [] OTHER -> Err("UnsupportedBetweenBooleans", token.value, token.pos)

eval_binop_strings(token, val1, val2) ==
  CASE token.value = <<"+">> -> Ok(STRINGVAL(val1 \o val2))
    [] token.value = <<"=", "=">> -> Ok(BOOL(val1 = val2))
    [] token.value = <<"!", "=">> -> Ok(BOOL(val1 # val2))
    [] OTHER -> Err("UnsupportedBetweenStrings", token.value, token.pos)

\* The `match (&param1, &param2)` of eval_binary_op.
binop_dispatch(token, param1, param2, checks) ==
  CASE param1.t = "INTEGER" /\ param2.t = "INTEGER" ->
         eval_binop_ints(token, param1.i, param2.i, checks)
    [] param1.t = "BOOL" /\ param2.t = "BOOL" ->
         eval_binop_bools(token, param1.b, param2.b)
    [] param1.t = "STRING" /\ param2.t = "STRING" ->
         eval_binop_strings(token, param1.s, param2.s)
    [] OTHER -> ErrMismatch(token.value, token.pos, param1, param2)

\* ------------------------------------------------------------------------
\* Context: two stacks of scopes, a scope a map from names to bindings
\* ------------------------------------------------------------------------

\* Context::new(): both stacks empty.
ContextNew == [variables |-> <<>>, functions |-> <<>>]

EmptyScope == <<>>

\* HashMap::insert
Insert(scope, name, binding) ==
  [n \in (DOMAIN scope) \cup {name} |-> IF n = name THEN binding ELSE scope[n]]

push_scope(ctx) ==
  [variables |-> Append(ctx.variables, EmptyScope),
   functions |-> Append(ctx.functions, EmptyScope)]

\* Vec::pop on an empty vector returns None and changes nothing.
PopVec(stack) == IF stack = <<>> THEN stack ELSE SubSeq(stack, 1, Len(stack) - 1)

\* A faulty pop_scope: the functions stack keeps its scope.
pop_scope_variables_only(ctx) ==
  [variables |-> PopVec(ctx.variables), functions |-> ctx.functions]

pop_scope(ctx) ==
  [variables |-> PopVec(ctx.variables), functions |-> PopVec(ctx.functions)]

\* `self.variables.last_mut().unwrap()` finds a scope.
HasVariableScope(ctx) == ctx.variables # <<>>

\* `self.functions.last_mut().unwrap()` finds a scope.
HasFunctionScope(ctx) == ctx.functions # <<>>

\* A set_variable that rebinds: the binding goes to the innermost scope that
\* already binds the name, and to the innermost scope when none does.
set_variable_rebinding(ctx, name, value) ==
  LET bound == {k \in 1..Len(ctx.variables) : name \in DOMAIN ctx.variables[k]}
      target == IF bound = {} THEN Len(ctx.variables)
                ELSE CHOOSE k \in bound : \A j \in bound : j <= k
  IN  [ctx EXCEPT !.variables[target] = Insert(@, name, value)]

\* A faulty set_variable: the binding goes to the outermost scope.
set_variable_outermost(ctx, name, value) ==
  [ctx EXCEPT !.variables[1] = Insert(@, name, value)]

set_variable(ctx, name, value) ==
  [ctx EXCEPT !.variables[Len(ctx.variables)] = Insert(@, name, value)]

set_function(ctx, name, params, body) ==
  [ctx EXCEPT !.functions[Len(ctx.functions)] =
                 Insert(@, name, [params |-> params, body |-> body])]

\* The scopes that bind `name`, by index (1 is the outermost).
Binders(stack, name) == {k \in 1..Len(stack) : name \in DOMAIN stack[k]}

\* The innermost scope that binds `name`: the first hit of the reverse scan.
Innermost(stack, name) ==
  CHOOSE k \in Binders(stack, name) : \A j \in Binders(stack, name) : j <= k

\* A faulty get_variable: the scan goes from the outermost scope inwards.
get_variable_outermost(ctx, name) ==
  IF Binders(ctx.variables, name) = {} THEN [some |-> FALSE, val |-> NULL]
  ELSE [some |-> TRUE,
        val |-> ctx.variables[CHOOSE k \in Binders(ctx.variables, name) :
                                \A j \in Binders(ctx.variables, name) : k <= j][name]]

\* Option<&RuntimeValue>
get_variable(ctx, name) ==
  IF Binders(ctx.variables, name) = {} THEN [some |-> FALSE, val |-> NULL]
  ELSE [some |-> TRUE, val |-> ctx.variables[Innermost(ctx.variables, name)][name]]

get_function_body(ctx, name) ==
  IF Binders(ctx.functions, name) = {} THEN [some |-> FALSE, val |-> NullNode]
  ELSE [some |-> TRUE, val |-> ctx.functions[Innermost(ctx.functions, name)][name].body]

\* A faulty get_function_params: the scan goes from the outermost scope
\* inwards, while get_function_body scans in reverse.
get_function_params_outermost(ctx, name) ==
  IF Binders(ctx.functions, name) = {} THEN [some |-> FALSE, val |-> <<>>]
  ELSE [some |-> TRUE,
        val |-> ctx.functions[CHOOSE k \in Binders(ctx.functions, name) :
                                \A j \in Binders(ctx.functions, name) : k <= j][name].params]

get_function_params(ctx, name) ==
  IF Binders(ctx.functions, name) = {} THEN [some |-> FALSE, val |-> <<>>]
  ELSE [some |-> TRUE, val |-> ctx.functions[Innermost(ctx.functions, name)][name].params]

\* ------------------------------------------------------------------------
\* Evaluator: a machine [ctx, frames, ret, returned, status].  frames is the
\* stack of active calls of ASTree::eval, the last one running; ret is the
\* Result the last finished call handed to its caller; returned is the
\* activation that finished in the step just taken (NoFrame otherwise), with
\* its locals and the Context it was entered with.
\* ------------------------------------------------------------------------

\* An activation of eval on `node`: pc is the place in the arm of `node`,
\* idx the loop index, val / val2 the values held in locals, fbody / fparams
\* the func_body and func_params of eval_fn_call, entry the Context at entry.
Frame(node, ctx) ==
  [node |-> node, pc |-> "start", idx |-> 0, val |-> NULL, val2 |-> NULL,
   fbody |-> NullNode, fparams |-> <<>>, entry |-> ctx]

NoFrame == [Frame(NullNode, ContextNew) EXCEPT !.pc = "none"]

\* `tree.eval(&mut ctx)` about to run.
MachineStart(tree, ctx) ==
  [ctx |-> ctx, frames |-> <<Frame(tree, ctx)>>, ret |-> NoResult,
   returned |-> NoFrame, status |-> "running"]

\* No evaluation: lexing or parsing failed.
MachineIdle ==
  [ctx |-> ContextNew, frames |-> <<>>, ret |-> NoResult,
   returned |-> NoFrame, status |-> "idle"]

Top(m) == m.frames[Len(m.frames)]

\* The running activation `f` returns `res`, leaving the Context `ctx`.
Return(m, f, ctx, res) ==
  [ctx |-> ctx, frames |-> SubSeq(m.frames, 1, Len(m.frames) - 1), ret |-> res,
   returned |-> f, status |-> IF Len(m.frames) = 1 THEN "done" ELSE "running"]

\* The running activation, now `f`, calls eval on `child`.
Call(m, f, ctx, child) ==
  [ctx |-> ctx,
   frames |-> Append([m.frames EXCEPT ![Len(m.frames)] = f], Frame(child, ctx)),
   ret |-> NoResult, returned |-> NoFrame, status |-> "running"]

\* The process aborts where it stands.
Abort(m) == [m EXCEPT !.status = "panic", !.returned = NoFrame]

\* `self.children[k]` (k from 0) is inside the vector.
HasChild(node, k) == k < Len(node.children)

Child(node, k) == node.children[k + 1]

\* The NUMERIC and STRING arms of eval, and the `_` arm.
eval_literal(m) ==
  LET f == Top(m)
      token == f.node.token
  IN  CASE token.type = "NUMERIC" -> Return(m, f, m.ctx, parse_i32(token.value))
        [] token.type = "STRING" -> Return(m, f, m.ctx, Ok(STRINGVAL(token.value)))
        [] OTHER -> Return(m, f, m.ctx, Err("UnexpectedTokenType", <<token.type>>, 0))

\* A short-circuiting eval_binary_op: `&&` on a false left operand and `||`
\* on a true one return without evaluating the right operand.
eval_binary_op_short_circuit(m, checks) ==
  LET f == Top(m)
      node == f.node
      decided == /\ m.ret.val.t = "BOOL"
                 /\ \/ node.token.value = <<"&", "&">> /\ ~m.ret.val.b
                    \/ node.token.value = <<"|", "|">> /\ m.ret.val.b
  IN  CASE f.pc = "start" ->
             IF ~HasChild(node, 0) THEN Abort(m)
             ELSE Call(m, [f EXCEPT !.pc = "left"], m.ctx, Child(node, 0))
        [] f.pc = "left" ->
             IF m.ret.tag = "Err" THEN Return(m, f, m.ctx, m.ret)
             ELSE IF decided THEN Return(m, [f EXCEPT !.val = m.ret.val], m.ctx, m.ret)
             ELSE IF ~HasChild(node, 1) THEN Abort(m)
             ELSE Call(m, [f EXCEPT !.pc = "right", !.val = m.ret.val], m.ctx,
                       Child(node, 1))
        [] f.pc = "right" ->
             IF m.ret.tag = "Err" THEN Return(m, f, m.ctx, m.ret)
             ELSE LET res == binop_dispatch(node.token, f.val, m.ret.val, checks)
                  IN  IF res.tag = "Panic" THEN Abort(m)
                      ELSE Return(m, [f EXCEPT !.val2 = m.ret.val], m.ctx, res)

eval_binary_op(m, checks) ==
  LET f == Top(m)
      node == f.node
  IN  CASE f.pc = "start" ->
             IF ~HasChild(node, 0) THEN Abort(m)
             ELSE Call(m, [f EXCEPT !.pc = "left"], m.ctx, Child(node, 0))
        [] f.pc = "left" ->
             IF m.ret.tag = "Err" THEN Return(m, f, m.ctx, m.ret)
             ELSE IF ~HasChild(node, 1) THEN Abort(m)
             ELSE Call(m, [f EXCEPT !.pc = "right", !.val = m.ret.val], m.ctx,
                       Child(node, 1))
        [] f.pc = "right" ->
             IF m.ret.tag = "Err" THEN Return(m, f, m.ctx, m.ret)
             ELSE LET res == binop_dispatch(node.token, f.val, m.ret.val, checks)
                  IN  IF res.tag = "Panic" THEN Abort(m)
                      ELSE Return(m, [f EXCEPT !.val2 = m.ret.val], m.ctx, res)

\* The variable-access branch of the IDENTIFIER arm.
eval_variable(m) ==
  LET f == Top(m)
      token == f.node.token
      found == get_variable(m.ctx, token.value)
  IN  IF found.some THEN Return(m, f, m.ctx, Ok(found.val))
      ELSE Return(m, f, m.ctx, Err("UnsetIdentifier", token.value, token.pos))

\* The head of `for (i, param_name) in func_params.iter().enumerate()`:
\* evaluate argument idx, or the body once the parameters are exhausted.
fn_call_next(m, f, ctx) ==
  IF f.idx >= Len(f.fparams)
    THEN Call(m, [f EXCEPT !.pc = "body"], ctx, f.fbody)
    ELSE IF ~HasChild(f.node, f.idx) THEN Abort([m EXCEPT !.ctx = ctx])
    ELSE Call(m, [f EXCEPT !.pc = "arg"], ctx, Child(f.node, f.idx))

eval_fn_call(m) ==
  LET f == Top(m)
      token == f.node.token
  IN  CASE f.pc = "start" ->
             LET func_body == get_function_body(m.ctx, token.value)
                 func_params == get_function_params(m.ctx, token.value)
             IN  IF ~func_body.some
                   THEN Return(m, f, m.ctx, Err("UnsetFunction", token.value, token.pos))
                   ELSE fn_call_next(m, [f EXCEPT !.fbody = func_body.val,
                                                  !.fparams = func_params.val,
                                                  !.idx = 0],
                                     push_scope(m.ctx))
        [] f.pc = "arg" ->
             IF m.ret.tag = "Err" THEN Return(m, f, m.ctx, m.ret)
             ELSE IF ~HasVariableScope(m.ctx) THEN Abort(m)
             ELSE fn_call_next(m, [f EXCEPT !.idx = @ + 1],
                               set_variable(m.ctx, f.fparams[f.idx + 1], m.ret.val))
        [] f.pc = "body" -> Return(m, f, pop_scope(m.ctx), m.ret)

\* A faulty eval_if: the branch is evaluated as a statement and its value
\* dropped, the IF yields NULL.
eval_if_statement(m) ==
  LET f == Top(m)
      node == f.node
  IN  CASE f.pc = "start" ->
             IF ~HasChild(node, 0) THEN Abort(m)
             ELSE Call(m, [f EXCEPT !.pc = "cond"], m.ctx, Child(node, 0))
        [] f.pc = "cond" ->
             IF m.ret.tag = "Err" THEN Return(m, f, m.ctx, m.ret)
             ELSE IF m.ret.val.t # "BOOL"
               THEN Return(m, [f EXCEPT !.val = m.ret.val], m.ctx,
                           Err("IfConditionNotBool", <<>>, node.token.pos))
             ELSE IF m.ret.val.b
               THEN IF ~HasChild(node, 1) THEN Abort(m)
                    ELSE Call(m, [f EXCEPT !.pc = "branch", !.val = m.ret.val], m.ctx,
                              Child(node, 1))
             ELSE IF Len(node.children) = 3
               THEN Call(m, [f EXCEPT !.pc = "branch", !.val = m.ret.val], m.ctx,
                         Child(node, 2))
             ELSE Return(m, [f EXCEPT !.val = m.ret.val], m.ctx, Ok(NULL))
        [] f.pc = "branch" ->
             Return(m, f, m.ctx, IF m.ret.tag = "Err" THEN m.ret ELSE Ok(NULL))

eval_if(m) ==
  LET f == Top(m)
      node == f.node
  IN  CASE f.pc = "start" ->
             IF ~HasChild(node, 0) THEN Abort(m)
             ELSE Call(m, [f EXCEPT !.pc = "cond"], m.ctx, Child(node, 0))
        [] f.pc = "cond" ->
             IF m.ret.tag = "Err" THEN Return(m, f, m.ctx, m.ret)
             ELSE IF m.ret.val.t # "BOOL"
               THEN Return(m, [f EXCEPT !.val = m.ret.val], m.ctx,
                           Err("IfConditionNotBool", <<>>, node.token.pos))
             ELSE IF m.ret.val.b
               THEN IF ~HasChild(node, 1) THEN Abort(m)
                    ELSE Call(m, [f EXCEPT !.pc = "branch", !.val = m.ret.val], m.ctx,
                              Child(node, 1))
             ELSE IF Len(node.children) = 3
               THEN Call(m, [f EXCEPT !.pc = "branch", !.val = m.ret.val], m.ctx,
                         Child(node, 2))
             ELSE Return(m, [f EXCEPT !.val = m.ret.val], m.ctx, Ok(NULL))
        [] f.pc = "branch" -> Return(m, f, m.ctx, m.ret)

eval_while(m) ==
  LET f == Top(m)
      node == f.node
  IN  CASE f.pc \in {"start", "body"} ->
             IF f.pc = "body" /\ m.ret.tag = "Err" THEN Return(m, f, m.ctx, m.ret)
             ELSE IF ~HasChild(node, 0) THEN Abort(m)
             ELSE Call(m, [f EXCEPT !.pc = "cond"], m.ctx, Child(node, 0))
        [] f.pc = "cond" ->
             IF m.ret.tag = "Err" THEN Return(m, f, m.ctx, m.ret)
             ELSE IF m.ret.val.t # "BOOL"
               THEN Return(m, [f EXCEPT !.val = m.ret.val], m.ctx,
                           Err("WhileConditionNotBool", <<>>, node.token.pos))
             ELSE IF m.ret.val.b
               THEN IF ~HasChild(node, 1) THEN Abort(m)
                    ELSE Call(m, [f EXCEPT !.pc = "body", !.val = m.ret.val], m.ctx,
                              Child(node, 1))
             ELSE Return(m, [f EXCEPT !.val = m.ret.val], m.ctx, Ok(NULL))

eval_assign(m) ==
  LET f == Top(m)
      node == f.node
  IN  CASE f.pc = "start" ->
             IF ~HasChild(node, 0) \/ ~HasChild(node, 1) THEN Abort(m)
             ELSE Call(m, [f EXCEPT !.pc = "value"], m.ctx, Child(node, 1))
        [] f.pc = "value" ->
             IF m.ret.tag = "Err" THEN Return(m, f, m.ctx, m.ret)
             ELSE IF ~HasVariableScope(m.ctx) THEN Abort(m)
             ELSE Return(m, [f EXCEPT !.val = m.ret.val],
                         set_variable(m.ctx, Child(node, 0).token.value, m.ret.val),
                         Ok(NULL))

\* The parameter names of a FN node: the children 1 .. len-2.
FnDefParams(node) ==
  [k \in 1..(IF Len(node.children) >= 2 THEN Len(node.children) - 2 ELSE 0) |->
     node.children[k + 1].token.value]

eval_fn_def(m) ==
  LET f == Top(m)
      node == f.node
  IN  IF ~HasChild(node, 0) THEN Abort(m)
      ELSE IF ~HasFunctionScope(m.ctx) THEN Abort(m)
      ELSE Return(m, f,
                  set_function(m.ctx, Child(node, 0).token.value, FnDefParams(node),
                               node.children[Len(node.children)]),
                  Ok(NULL))

\* The head of `for child in &self.children`, and the code after the loop.
block_next(m, f, ctx) ==
  IF f.idx >= Len(f.node.children)
    THEN Return(m, f, IF f.node.token.type = "BLOCK(true)" THEN pop_scope(ctx) ELSE ctx,
                Ok(f.val))
    ELSE Call(m, [f EXCEPT !.pc = "child"], ctx, Child(f.node, f.idx))

\* A faulty eval_block: a child's error is dropped and the loop goes on.
eval_block_continuing(m) ==
  LET f == Top(m)
  IN  CASE f.pc = "start" ->
             block_next(m, [f EXCEPT !.val = NULL, !.idx = 0],
                        IF f.node.token.type = "BLOCK(true)" THEN push_scope(m.ctx)
                                                           ELSE m.ctx)
        [] f.pc = "child" ->
             block_next(m, [f EXCEPT !.val = m.ret.val, !.idx = @ + 1], m.ctx)

eval_block(m) ==
  LET f == Top(m)
  IN  CASE f.pc = "start" ->
             block_next(m, [f EXCEPT !.val = NULL, !.idx = 0],
                        IF f.node.token.type = "BLOCK(true)" THEN push_scope(m.ctx)
                                                           ELSE m.ctx)
        [] f.pc = "child" ->
             IF m.ret.tag = "Err" THEN Return(m, f, m.ctx, m.ret)
             ELSE block_next(m, [f EXCEPT !.val = m.ret.val, !.idx = @ + 1], m.ctx)

\* The match of ASTree::eval on the token type of the running activation.
eval_step(m, checks) ==
  LET node == Top(m).node
      type == node.token.type
  IN  CASE type = "BINARYOP" -> eval_binary_op(m, checks)
        [] type = "IDENTIFIER" ->
             IF Len(node.children) = 0 THEN eval_variable(m) ELSE eval_fn_call(m)
        [] type = "IF" -> eval_if(m)
        [] type = "WHILE" -> eval_while(m)
        [] type = "ASSIGN" -> eval_assign(m)
        [] type = "FN" -> eval_fn_def(m)
        [] type \in {"BLOCK(true)", "BLOCK(false)"} -> eval_block(m)
        [] OTHER -> eval_literal(m)

\* An evaluation as a part of its process: its machine and the static.
Process(m, ids) == [machine |-> m, identifiers |-> ids]

\* A faulty eval that goes through the static: an assignment is also
\* written to IDENTIFIERS, and a name no scope binds is read from it.
eval_through_static(p, checks) ==
  LET m == p.machine
      f == Top(m)
      name == f.node.token.value
      next == eval_step(m, checks)
  IN  IF f.node.token.type = "ASSIGN" /\ f.pc = "value" /\ m.ret.tag = "Ok"
        THEN Process(next, [set |-> TRUE,
                            map |-> Insert(p.identifiers.map,
                                           Child(f.node, 0).token.value, m.ret.val)])
      ELSE IF /\ f.node.token.type = "IDENTIFIER"
              /\ f.node.children = <<>>
              /\ ~get_variable(m.ctx, name).some
              /\ name \in DOMAIN p.identifiers.map
        THEN Process(Return(m, f, m.ctx, Ok(p.identifiers.map[name])), p.identifiers)
      ELSE Process(next, p.identifiers)

\* A step of ASTree::eval in its process: it works on the Context it was
\* given and leaves the static alone.
eval(p, checks) == Process(eval_step(p.machine, checks), p.identifiers)

RECURSIVE EvalRun(_, _)
\* eval run to its end, nothing else running in the process.
EvalRun(p, checks) ==
  IF p.machine.status # "running" THEN p ELSE EvalRun(eval(p, checks), checks)

\* The static IDENTIFIERS: a OnceLock that nothing has set.
IdentifiersUnset == [set |-> FALSE, map |-> <<>>]

\* No second evaluation in the process.
NoPeer == [input |-> <<>>, machine |-> MachineIdle]

\* One evaluation at most, and the static as the process starts with it.
SingleEvaluation == peer = NoPeer /\ identifiers = IdentifiersUnset

\* ------------------------------------------------------------------------
\* Source texts
\* ------------------------------------------------------------------------

\* i = 0 while (i != 3) { i = i + 1 } i
Src_Loop ==
  <<"i", " ", "=", " ", "0", " ", "w", "h", "i", "l", "e", " ", "(", "i",
    " ", "!", "=", " ", "3", ")", " ", "{", " ", "i", " ", "=", " ", "i",
    " ", "+", " ", "1", " ", "}", " ", "i">>

\* fn g(a, b) { a - b } a = 1 b = 2 g(b, a)
Src_SwapArgs ==
  <<"f", "n", " ", "g", "(", "a", ",", " ", "b", ")", " ", "{", " ", "a",
    " ", "-", " ", "b", " ", "}", " ", "a", " ", "=", " ", "1", " ", "b",
    " ", "=", " ", "2", " ", "g", "(", "b", ",", " ", "a", ")">>

\* fn f() { 1 } f()
Src_CallNoArgs ==
  <<"f", "n", " ", "f", "(", ")", " ", "{", " ", "1", " ", "}", " ", "f",
    "(", ")">>

\* fn add(a, b) { a + b } add(2, 3)
Src_Add ==
  <<"f", "n", " ", "a", "d", "d", "(", "a", ",", " ", "b", ")", " ", "{",
    " ", "a", " ", "+", " ", "b", " ", "}", " ", "a", "d", "d", "(", "2",
    ",", " ", "3", ")">>

\* 5 / 0
Src_DivLiteralZero ==
  <<"5", " ", "/", " ", "0">>

\* 0 / 0
Src_DivZeroByZero ==
  <<"0", " ", "/", " ", "0">>

\* 2147483647 / 0
Src_DivMaxByZero ==
  <<"2", "1", "4", "7", "4", "8", "3", "6", "4", "7", " ", "/", " ", "0">>

\* z = 0 7 / z
Src_DivVariableZero ==
  <<"z", " ", "=", " ", "0", " ", "7", " ", "/", " ", "z">>

\* fn z(a) { a - a } 5 / z(1)
Src_DivComputedZero ==
  <<"f", "n", " ", "z", "(", "a", ")", " ", "{", " ", "a", " ", "-", " ",
    "a", " ", "}", " ", "5", " ", "/", " ", "z", "(", "1", ")">>

\* n = 0 - 5 n / 0
Src_DivNegativeByZero ==
  <<"n", " ", "=", " ", "0", " ", "-", " ", "5", " ", "n", " ", "/", " ", "0">>

\* m = 0 - 2147483647 - 1 m / 0
Src_DivMinByZero ==
  <<"m", " ", "=", " ", "0", " ", "-", " ", "2", "1", "4", "7", "4", "8",
    "3", "6", "4", "7", " ", "-", " ", "1", " ", "m", " ", "/", " ", "0">>

\* n = 0 - 7 n / 2
Src_DivTruncates ==
  <<"n", " ", "=", " ", "0", " ", "-", " ", "7", " ", "n", " ", "/", " ", "2">>

\* 7 / 2
Src_DivExact ==
  <<"7", " ", "/", " ", "2">>

\* fn g(a, b) { a } g(1)
Src_TooFewArgs ==
  <<"f", "n", " ", "g", "(", "a", ",", " ", "b", ")", " ", "{", " ", "a",
    " ", "}", " ", "g", "(", "1", ")">>

\* fn g(a) { a } g(1, 2)
Src_TooManyArgs ==
  <<"f", "n", " ", "g", "(", "a", ")", " ", "{", " ", "a", " ", "}", " ",
    "g", "(", "1", ",", " ", "2", ")">>

\* { fn f(a) { a } f(1) }
Src_FnInBlock ==
  <<"{", " ", "f", "n", " ", "f", "(", "a", ")", " ", "{", " ", "a", " ",
    "}", " ", "f", "(", "1", ")", " ", "}">>

\* { fn f(a) { a } } f(1)
Src_FnAfterBlock ==
  <<"{", " ", "f", "n", " ", "f", "(", "a", ")", " ", "{", " ", "a", " ",
    "}", " ", "}", " ", "f", "(", "1", ")">>

\* { fn f() { 1 } f() }
Src_FnNoArgsInBlock ==
  <<"{", " ", "f", "n", " ", "f", "(", ")", " ", "{", " ", "1", " ", "}",
    " ", "f", "(", ")", " ", "}">>

\* { fn f() { 1 } } f()
Src_FnNoArgsAfterBlock ==
  <<"{", " ", "f", "n", " ", "f", "(", ")", " ", "{", " ", "1", " ", "}",
    " ", "}", " ", "f", "(", ")">>

\* x = 1 if (x == 1) { x = 2 y = 3 } x
Src_IfThenAssign ==
  <<"x", " ", "=", " ", "1", " ", "i", "f", " ", "(", "x", " ", "=", "=",
    " ", "1", ")", " ", "{", " ", "x", " ", "=", " ", "2", " ", "y", " ",
    "=", " ", "3", " ", "}", " ", "x">>

\* if (1 == 1) { y = 3 } y
Src_IfThenUnbound ==
  <<"i", "f", " ", "(", "1", " ", "=", "=", " ", "1", ")", " ", "{", " ",
    "y", " ", "=", " ", "3", " ", "}", " ", "y">>

\* x = 1 if (x == 2) { x = 2 } else { x = 3 z = 4 } x
Src_IfElseAssign ==
  <<"x", " ", "=", " ", "1", " ", "i", "f", " ", "(", "x", " ", "=", "=",
    " ", "2", ")", " ", "{", " ", "x", " ", "=", " ", "2", " ", "}", " ",
    "e", "l", "s", "e", " ", "{", " ", "x", " ", "=", " ", "3", " ", "z",
    " ", "=", " ", "4", " ", "}", " ", "x">>

\* fn t(a) { a = 5 a == 5 } a = 1 if (t(1)) { fn q(b) { b } a = 2 } a
Src_IfCallCondition ==
  <<"f", "n", " ", "t", "(", "a", ")", " ", "{", " ", "a", " ", "=", " ",
    "5", " ", "a", " ", "=", "=", " ", "5", " ", "}", " ", "a", " ", "=",
    " ", "1", " ", "i", "f", " ", "(", "t", "(", "1", ")", ")", " ", "{",
    " ", "f", "n", " ", "q", "(", "b", ")", " ", "{", " ", "b", " ", "}",
    " ", "a", " ", "=", " ", "2", " ", "}", " ", "a">>

\* x = 1 if (x == 2) { x = 2 } x
Src_IfNoElse ==
  <<"x", " ", "=", " ", "1", " ", "i", "f", " ", "(", "x", " ", "=", "=",
    " ", "2", ")", " ", "{", " ", "x", " ", "=", " ", "2", " ", "}", " ", "x">>

\* if (1) { x = 2 }
Src_IfNotBool ==
  <<"i", "f", " ", "(", "1", ")", " ", "{", " ", "x", " ", "=", " ", "2",
    " ", "}">>

\* x = 1 { x = 2 y = x } x
Src_AssignShadow ==
  <<"x", " ", "=", " ", "1", " ", "{", " ", "x", " ", "=", " ", "2", " ",
    "y", " ", "=", " ", "x", " ", "}", " ", "x">>

\* x = 1 { x = q }
Src_AssignError ==
  <<"x", " ", "=", " ", "1", " ", "{", " ", "x", " ", "=", " ", "q", " ", "}">>

\* fn f(a) { a = a + 1 a } x = 5 x = f(x) x
Src_AssignCall ==
  <<"f", "n", " ", "f", "(", "a", ")", " ", "{", " ", "a", " ", "=", " ",
    "a", " ", "+", " ", "1", " ", "a", " ", "}", " ", "x", " ", "=", " ",
    "5", " ", "x", " ", "=", " ", "f", "(", "x", ")", " ", "x">>

\* x = 1 fn f(a) { { a / 0 } } x = f(1)
Src_AssignErrorInCall ==
  <<"x", " ", "=", " ", "1", " ", "f", "n", " ", "f", "(", "a", ")", " ",
    "{", " ", "{", " ", "a", " ", "/", " ", "0", " ", "}", " ", "}", " ",
    "x", " ", "=", " ", "f", "(", "1", ")">>

\* a = b = 1 b
Src_AssignChain ==
  <<"a", " ", "=", " ", "b", " ", "=", " ", "1", " ", "b">>

\* x = 1 x = x + 1 x
Src_Reassign ==
  <<"x", " ", "=", " ", "1", " ", "x", " ", "=", " ", "x", " ", "+", " ",
    "1", " ", "x">>

\* 1 + "a"
Src_Mismatch ==
  <<"1", " ", "+", " ", "\"", "a", "\"">>

\* "ab" + "c" == "abc"
Src_Concat ==
  <<"\"", "a", "b", "\"", " ", "+", " ", "\"", "c", "\"", " ", "=", "=", " ",
    "\"", "a", "b", "c", "\"">>

\* 1 == 1 && 2 != 3
Src_Bools ==
  <<"1", " ", "=", "=", " ", "1", " ", "&", "&", " ", "2", " ", "!", "=",
    " ", "3">>

\* while (1) { }
Src_WhileNotBool ==
  <<"w", "h", "i", "l", "e", " ", "(", "1", ")", " ", "{", " ", "}">>

\* while (1 == 2) { x = 1 }
Src_WhileFalse ==
  <<"w", "h", "i", "l", "e", " ", "(", "1", " ", "=", "=", " ", "2", ")",
    " ", "{", " ", "x", " ", "=", " ", "1", " ", "}">>

\* while (1 == 1) { q }
Src_WhileBodyError ==
  <<"w", "h", "i", "l", "e", " ", "(", "1", " ", "=", "=", " ", "1", ")",
    " ", "{", " ", "q", " ", "}">>

\* 2147483647 + 1
Src_Overflow ==
  <<"2", "1", "4", "7", "4", "8", "3", "6", "4", "7", " ", "+", " ", "1">>

\* 2147483648
Src_LiteralTooLarge ==
  <<"2", "1", "4", "7", "4", "8", "3", "6", "4", "8">>

\* 2 + 3 * 4
Src_Precedence ==
  <<"2", " ", "+", " ", "3", " ", "*", " ", "4">>

\* 
Src_Empty ==
  <<>>

\* f = 1 == 2 f && q
Src_AndFalseError ==
  <<"f", " ", "=", " ", "1", " ", "=", "=", " ", "2", " ", "f", " ", "&",
    "&", " ", "q">>

\* t = 1 == 1 t || 1 / 0
Src_OrTrueError ==
  <<"t", " ", "=", " ", "1", " ", "=", "=", " ", "1", " ", "t", " ", "|",
    "|", " ", "1", " ", "/", " ", "0">>

\* f = 1 == 2 t = 1 == 1 f && t
Src_AndFalseOk ==
  <<"f", " ", "=", " ", "1", " ", "=", "=", " ", "2", " ", "t", " ", "=",
    " ", "1", " ", "=", "=", " ", "1", " ", "f", " ", "&", "&", " ", "t">>

\* { q x = 1 } y = 2
Src_AbortInBlock ==
  <<"{", " ", "q", " ", "x", " ", "=", " ", "1", " ", "}", " ", "y", " ",
    "=", " ", "2">>

\* x = 1 { { 1 / 0 } x = 2 } x = 3
Src_AbortNested ==
  <<"x", " ", "=", " ", "1", " ", "{", " ", "{", " ", "1", " ", "/", " ",
    "0", " ", "}", " ", "x", " ", "=", " ", "2", " ", "}", " ", "x", " ",
    "=", " ", "3">>

\* g()
Src_CallUndefined ==
  <<"g", "(", ")">>

\* x = 1 g(x)
Src_CallUndefinedArg ==
  <<"x", " ", "=", " ", "1", " ", "g", "(", "x", ")">>

\* fn f(a) { b = a a } f(1) f(2)
Src_CallTwice ==
  <<"f", "n", " ", "f", "(", "a", ")", " ", "{", " ", "b", " ", "=", " ",
    "a", " ", "a", " ", "}", " ", "f", "(", "1", ")", " ", "f", "(", "2", ")">>

\* x = 1 x
Src_PairSet ==
  <<"x", " ", "=", " ", "1", " ", "x">>

\* x
Src_PairGet ==
  <<"x">>

\* fn f(a) { x = a x } f(3) x
Src_PairCall ==
  <<"f", "n", " ", "f", "(", "a", ")", " ", "{", " ", "x", " ", "=", " ",
    "a", " ", "x", " ", "}", " ", "f", "(", "3", ")", " ", "x">>

\* 1 + + 2
Src_OpTwice ==
  <<"1", " ", "+", " ", "+", " ", "2">>

\* 1 + 2 * * 3
Src_OpTwiceLate ==
  <<"1", " ", "+", " ", "2", " ", "*", " ", "*", " ", "3">>

\* - 1
Src_OpFirst ==
  <<"-", " ", "1">>

\* a = + 1
Src_OpFirstAssigned ==
  <<"a", " ", "=", " ", "+", " ", "1">>

\* f(1 + - 2)
Src_OpTwiceInCall ==
  <<"f", "(", "1", " ", "+", " ", "-", " ", "2", ")">>

\* 1 - f(* 2)
Src_OpFirstInCall ==
  <<"1", " ", "-", " ", "f", "(", "*", " ", "2", ")">>

\* { 1 } / 2
Src_OpFirstInBlock ==
  <<"{", " ", "1", " ", "}", " ", "/", " ", "2">>

\* x = 1 fn t(a) { x = 2 a == 1 } while (t(x)) { x = 3 fn t(b) { b } q }
Src_WhileCallCondition ==
  <<"x", " ", "=", " ", "1", " ", "f", "n", " ", "t", "(", "a", ")", " ",
    "{", " ", "x", " ", "=", " ", "2", " ", "a", " ", "=", "=", " ", "1",
    " ", "}", " ", "w", "h", "i", "l", "e", " ", "(", "t", "(", "x", ")",
    ")", " ", "{", " ", "x", " ", "=", " ", "3", " ", "f", "n", " ", "t",
    "(", "b", ")", " ", "{", " ", "b", " ", "}", " ", "q", " ", "}">>

\* i = 0 while (i == 0) { j = 0 while (j != 0) { i = 1 } i = 1 }
Src_WhileNested ==
  <<"i", " ", "=", " ", "0", " ", "w", "h", "i", "l", "e", " ", "(", "i",
    " ", "=", "=", " ", "0", ")", " ", "{", " ", "j", " ", "=", " ", "0",
    " ", "w", "h", "i", "l", "e", " ", "(", "j", " ", "!", "=", " ", "0",
    ")", " ", "{", " ", "i", " ", "=", " ", "1", " ", "}", " ", "i", " ",
    "=", " ", "1", " ", "}">>

\* { a = 1
Src_Unclosed ==
  <<"{", " ", "a", " ", "=", " ", "1">>

\* if (a) { { 1 }
Src_UnclosedNested ==
  <<"i", "f", " ", "(", "a", ")", " ", "{", " ", "{", " ", "1", " ", "}">>

\* x = 1 fn f(a) { x + a } { x = 5 f(1) }
Src_DynamicShadow ==
  <<"x", " ", "=", " ", "1", " ", "f", "n", " ", "f", "(", "a", ")", " ",
    "{", " ", "x", " ", "+", " ", "a", " ", "}", " ", "{", " ", "x", " ",
    "=", " ", "5", " ", "f", "(", "1", ")", " ", "}">>

\* fn f(a) { y } { y = 2 f(0) }
Src_DynamicLate ==
  <<"f", "n", " ", "f", "(", "a", ")", " ", "{", " ", "y", " ", "}", " ",
    "{", " ", "y", " ", "=", " ", "2", " ", "f", "(", "0", ")", " ", "}">>

\* fn f(a) { z } { z = 1 } f(0)
Src_DynamicUnset ==
  <<"f", "n", " ", "f", "(", "a", ")", " ", "{", " ", "z", " ", "}", " ",
    "{", " ", "z", " ", "=", " ", "1", " ", "}", " ", "f", "(", "0", ")">>

\* fn f(b) { a } fn g(a) { f(0) } g(7)
Src_DynamicCaller ==
  <<"f", "n", " ", "f", "(", "b", ")", " ", "{", " ", "a", " ", "}", " ",
    "f", "n", " ", "g", "(", "a", ")", " ", "{", " ", "f", "(", "0", ")",
    " ", "}", " ", "g", "(", "7", ")">>

\* fn f(a) { a } fn f(a, b) { b } f(1, 2)
Src_FnRedefine ==
  <<"f", "n", " ", "f", "(", "a", ")", " ", "{", " ", "a", " ", "}", " ",
    "f", "n", " ", "f", "(", "a", ",", " ", "b", ")", " ", "{", " ", "b",
    " ", "}", " ", "f", "(", "1", ",", " ", "2", ")">>

\* fn f(a, b) { b } fn f(a) { a + 1 } f(5)
Src_FnRedefineFewer ==
  <<"f", "n", " ", "f", "(", "a", ",", " ", "b", ")", " ", "{", " ", "b",
    " ", "}", " ", "f", "n", " ", "f", "(", "a", ")", " ", "{", " ", "a",
    " ", "+", " ", "1", " ", "}", " ", "f", "(", "5", ")">>

\* fn f(a) { 1 } { fn f(a, b) { 2 } f(0, 0) } f(0)
Src_FnShadow ==
  <<"f", "n", " ", "f", "(", "a", ")", " ", "{", " ", "1", " ", "}", " ",
    "{", " ", "f", "n", " ", "f", "(", "a", ",", " ", "b", ")", " ", "{",
    " ", "2", " ", "}", " ", "f", "(", "0", ",", " ", "0", ")", " ", "}",
    " ", "f", "(", "0", ")">>

\* fn f(a) { 1 } fn g(a) { fn f(a) { 2 } f(0) } g(0) + f(0)
Src_FnShadowInCall ==
  <<"f", "n", " ", "f", "(", "a", ")", " ", "{", " ", "1", " ", "}", " ",
    "f", "n", " ", "g", "(", "a", ")", " ", "{", " ", "f", "n", " ", "f",
    "(", "a", ")", " ", "{", " ", "2", " ", "}", " ", "f", "(", "0", ")",
    " ", "}", " ", "g", "(", "0", ")", " ", "+", " ", "f", "(", "0", ")">>

\* if (1 == 1) { 7 } else { 8 }
Src_IfThenValue ==
  <<"i", "f", " ", "(", "1", " ", "=", "=", " ", "1", ")", " ", "{", " ",
    "7", " ", "}", " ", "e", "l", "s", "e", " ", "{", " ", "8", " ", "}">>

\* if (1 == 2) { 7 } else { 8 }
Src_IfElseValue ==
  <<"i", "f", " ", "(", "1", " ", "=", "=", " ", "2", ")", " ", "{", " ",
    "7", " ", "}", " ", "e", "l", "s", "e", " ", "{", " ", "8", " ", "}">>

\* if (1 == 2) { 7 }
Src_IfFalseNoElse ==
  <<"i", "f", " ", "(", "1", " ", "=", "=", " ", "2", ")", " ", "{", " ",
    "7", " ", "}">>

\* 5 if (1 == 1) { 7 9 }
Src_IfTrueNoElse ==
  <<"5", " ", "i", "f", " ", "(", "1", " ", "=", "=", " ", "1", ")", " ",
    "{", " ", "7", " ", "9", " ", "}">>

\* if (1) { 1 / 0 } else { 2 / 0 }
Src_IfNotBoolBranches ==
  <<"i", "f", " ", "(", "1", ")", " ", "{", " ", "1", " ", "/", " ", "0",
    " ", "}", " ", "e", "l", "s", "e", " ", "{", " ", "2", " ", "/", " ",
    "0", " ", "}">>

\* if (1 == 1) { } else { 8 }
Src_IfEmptyThen ==
  <<"i", "f", " ", "(", "1", " ", "=", "=", " ", "1", ")", " ", "{", " ",
    "}", " ", "e", "l", "s", "e", " ", "{", " ", "8", " ", "}">>

\* 1 x = 2
Src_LastIsAssign ==
  <<"1", " ", "x", " ", "=", " ", "2">>

\* 1 fn f(a) { a }
Src_LastIsFnDef ==
  <<"1", " ", "f", "n", " ", "f", "(", "a", ")", " ", "{", " ", "a", " ", "}">>

\* 1 while (1 == 2) { 3 }
Src_LastIsWhile ==
  <<"1", " ", "w", "h", "i", "l", "e", " ", "(", "1", " ", "=", "=", " ",
    "2", ")", " ", "{", " ", "3", " ", "}">>

\* 1 { }
Src_LastIsEmptyBlock ==
  <<"1", " ", "{", " ", "}">>

\* 1 { 2 3 }
Src_LastIsBlock ==
  <<"1", " ", "{", " ", "2", " ", "3", " ", "}">>

\* 8 op1 3 op2 2
ExprText(op1, op2) ==
  <<"8", " ">> \o op1 \o <<" ", "3", " ">> \o op2 \o <<" ", "2">>

\* Every expression of three operands and two of the binary operators.
ExprTexts == {ExprText(op1, op2) : op1 \in BinaryOpTexts, op2 \in BinaryOpTexts}

\* 8 - 3 - 2
Src_LeftAssoc == ExprText(<<"-">>, <<"-">>)

\* The source texts evaluated under Spec.
Programs ==
  {Src_Loop,
   Src_SwapArgs,
   Src_CallNoArgs,
   Src_Add,
   Src_DivLiteralZero,
   Src_DivZeroByZero,
   Src_DivMaxByZero,
   Src_DivVariableZero,
   Src_DivComputedZero,
   Src_DivNegativeByZero,
   Src_DivMinByZero,
   Src_DivTruncates,
   Src_DivExact,
   Src_TooFewArgs,
   Src_TooManyArgs,
   Src_FnInBlock,
   Src_FnAfterBlock,
   Src_FnNoArgsInBlock,
   Src_FnNoArgsAfterBlock,
   Src_IfThenAssign,
   Src_IfThenUnbound,
   Src_IfElseAssign,
   Src_IfCallCondition,
   Src_IfNoElse,
   Src_IfNotBool,
   Src_AssignShadow,
   Src_AssignError,
   Src_AssignCall,
   Src_AssignErrorInCall,
   Src_AssignChain,
   Src_Reassign,
   Src_Mismatch,
   Src_Concat,
   Src_Bools,
   Src_WhileNotBool,
   Src_WhileFalse,
   Src_WhileBodyError,
   Src_Overflow,
   Src_LiteralTooLarge,
   Src_Precedence,
   Src_Empty,
   Src_AndFalseError,
   Src_OrTrueError,
   Src_AndFalseOk,
   Src_AbortInBlock,
   Src_AbortNested,
   Src_CallUndefined,
   Src_CallUndefinedArg,
   Src_CallTwice,
   Src_WhileCallCondition,
   Src_WhileNested,
   Src_DynamicShadow,
   Src_DynamicLate,
   Src_DynamicUnset,
   Src_DynamicCaller,
   Src_FnRedefine,
   Src_FnRedefineFewer,
   Src_FnShadow,
   Src_FnShadowInCall,
   Src_IfThenValue,
   Src_IfElseValue,
   Src_IfFalseNoElse,
   Src_IfTrueNoElse,
   Src_IfNotBoolBranches,
   Src_IfEmptyThen,
   Src_LastIsAssign,
   Src_LastIsFnDef,
   Src_LastIsWhile,
   Src_LastIsEmptyBlock,
   Src_LastIsBlock} \cup ExprTexts


\* ------------------------------------------------------------------------
\* Spec: a source text run through the pipeline of `interpret`: tokenize,
\* parse, then eval of the tree on a Context::new(), one step of the
\* evaluator at a time.
\* ------------------------------------------------------------------------

ParseIdle == [status |-> "idle", out |-> <<>>, pos |-> 0, err |-> NoParseErr]

ParserNew == [tokens |-> <<>>, pos |-> 0]

\* The state once `src` is lexed and parsed and eval is about to be called.
Loaded(src) ==
  LET lexed == TokenizeRun(set_input(LexerNew, src), LexStart)
      tree == parse(lexed.run.tokens)
  IN  /\ lexer = lexed.lexer
      /\ lexrun = lexed.run
      /\ parser = [tokens |-> lexed.run.tokens,
                   pos |-> IF lexed.run.status = "ok" THEN tree.pos ELSE 0]
      /\ parseout = IF lexed.run.status = "ok" THEN tree ELSE ParseIdle
      /\ machine = IF lexed.run.status = "ok" /\ tree.status = "ok"
                     THEN MachineStart(tree.out, ContextNew)
                     ELSE MachineIdle

Init ==
  /\ build \in BOOLEAN
  /\ SingleEvaluation
  /\ \E src \in Programs : Loaded(src)

Running == machine.status = "running"

TopType == Top(machine).node.token.type

Unchanged == UNCHANGED <<lexer, lexrun, parser, parseout, build, peer, identifiers>>

EvalLiteral ==
  /\ Running
  /\ TopType \notin {"BINARYOP", "IDENTIFIER", "IF", "WHILE", "ASSIGN", "FN",
                     "BLOCK(true)", "BLOCK(false)"}
  /\ machine' = eval_literal(machine)
  /\ Unchanged

EvalBinaryOp ==
  /\ Running
  /\ TopType = "BINARYOP"
  /\ machine' = eval_binary_op(machine, build)
  /\ Unchanged

EvalVariable ==
  /\ Running
  /\ TopType = "IDENTIFIER"
  /\ Len(Top(machine).node.children) = 0
  /\ machine' = eval_variable(machine)
  /\ Unchanged

EvalFnCall ==
  /\ Running
  /\ TopType = "IDENTIFIER"
  /\ Len(Top(machine).node.children) # 0
  /\ machine' = eval_fn_call(machine)
  /\ Unchanged

EvalIf ==
  /\ Running
  /\ TopType = "IF"
  /\ machine' = eval_if(machine)
  /\ Unchanged

EvalWhile ==
  /\ Running
  /\ TopType = "WHILE"
  /\ machine' = eval_while(machine)
  /\ Unchanged

EvalAssign ==
  /\ Running
  /\ TopType = "ASSIGN"
  /\ machine' = eval_assign(machine)
  /\ Unchanged

EvalFnDef ==
  /\ Running
  /\ TopType = "FN"
  /\ machine' = eval_fn_def(machine)
  /\ Unchanged

EvalBlock ==
  /\ Running
  /\ TopType \in {"BLOCK(true)", "BLOCK(false)"}
  /\ machine' = eval_block(machine)
  /\ Unchanged

Next ==
  \/ EvalLiteral
  \/ EvalBinaryOp
  \/ EvalVariable
  \/ EvalFnCall
  \/ EvalIf
  \/ EvalWhile
  \/ EvalAssign
  \/ EvalFnDef
  \/ EvalBlock

Spec == Init /\ [][Next]_vars

\* ------------------------------------------------------------------------
\* SpecBinop: eval of the tree `l op r` on a Context whose one scope binds
\* l and r, for every binary operator and a sample of every kind of value.
\* ------------------------------------------------------------------------

OperandValues ==
  {INTEGER(n) : n \in {0, 1, -1, 7, 65536, I32_MAX, I32_MIN}}
    \cup {BOOL(TRUE), BOOL(FALSE), NULL}
    \cup {STRINGVAL(<<>>), STRINGVAL(<<"a">>), STRINGVAL(<<"a", "b">>)}

\* The tree parse_expression builds for `l op r`.
BinopTree(op) ==
  append(append(ASTreeNew(Token("BINARYOP", op, 2)),
                ASTreeNew(Token("IDENTIFIER", <<"l">>, 0))),
         ASTreeNew(Token("IDENTIFIER", <<"r">>, 2 + Len(op) + 1)))

\* A Context of one scope in which l is left and r is right.
BinopContext(left, right) ==
  set_variable(set_variable(push_scope(ContextNew), <<"l">>, left), <<"r">>, right)

InitBinop ==
  /\ lexer = LexerNew
  /\ lexrun = LexIdle
  /\ parser = ParserNew
  /\ parseout = ParseIdle
  /\ build \in BOOLEAN
  /\ SingleEvaluation
  /\ \E op \in BinaryOpTexts, left \in OperandValues, right \in OperandValues :
       machine = MachineStart(BinopTree(op), BinopContext(left, right))

NextBinop ==
  \/ EvalBinaryOp
  \/ EvalVariable

SpecBinop == InitBinop /\ [][NextBinop]_vars

\* ------------------------------------------------------------------------
\* SpecCtx: a Context::new() driven through its four mutating methods in
\* any order; set_variable and set_function on an empty stack end the
\* process (unwrap on None).
\* ------------------------------------------------------------------------

CtxNames == {<<"a">>, <<"b">>}

InitCtx ==
  /\ lexer = LexerNew
  /\ lexrun = LexIdle
  /\ parser = ParserNew
  /\ parseout = ParseIdle
  /\ machine = MachineIdle
  /\ build = TRUE
  /\ SingleEvaluation

CtxPushScope ==
  /\ machine.status = "idle"
  /\ Len(machine.ctx.variables) < MaxDepth
  /\ machine' = [machine EXCEPT !.ctx = push_scope(@)]
  /\ Unchanged

CtxPopScope ==
  /\ machine.status = "idle"
  /\ machine' = [machine EXCEPT !.ctx = pop_scope(@)]
  /\ Unchanged

CtxSetVariable ==
  /\ machine.status = "idle"
  /\ \E name \in CtxNames :
       machine' = IF ~HasVariableScope(machine.ctx) THEN Abort(machine)
                  ELSE [machine EXCEPT !.ctx = set_variable(@, name, INTEGER(1))]
  /\ Unchanged

CtxSetFunction ==
  /\ machine.status = "idle"
  /\ \E name \in CtxNames :
       machine' = IF ~HasFunctionScope(machine.ctx) THEN Abort(machine)
                  ELSE [machine EXCEPT !.ctx = set_function(@, name, <<>>, NullNode)]
  /\ Unchanged

NextCtx ==
  \/ CtxPushScope
  \/ CtxPopScope
  \/ CtxSetVariable
  \/ CtxSetFunction

SpecCtx == InitCtx /\ [][NextCtx]_vars

\* ------------------------------------------------------------------------
\* SpecLiteral: a run of decimal digits, alone in the source text, through
\* tokenize, parse and eval.
\* ------------------------------------------------------------------------

\* Literals around the limits of i32, and with leading zeros.
BoundaryLiterals ==
  {<<"2", "1", "4", "7", "4", "8", "3", "6", "4", "7">>,
   <<"2", "1", "4", "7", "4", "8", "3", "6", "4", "8">>,
   <<"2", "1", "4", "7", "4", "8", "3", "6", "4", "6">>,
   <<"2", "1", "4", "7", "4", "8", "3", "6", "3", "9">>,
   <<"2", "1", "4", "7", "4", "8", "3", "6", "5", "0">>,
   <<"0", "0", "0", "2", "1", "4", "7", "4", "8", "3", "6", "4", "7">>,
   <<"0", "0", "0", "0", "0", "0", "0", "0", "0", "0", "0">>,
   <<"1", "9", "9", "9", "9", "9", "9", "9", "9", "9">>,
   <<"4", "2", "9", "4", "9", "6", "7", "2", "9", "6">>,
   <<"4", "2", "9", "4", "9", "6", "7", "3", "0", "1">>,
   <<"9", "9", "9", "9", "9", "9", "9", "9", "9", "9">>,
   <<"1", "0", "0", "0", "0", "0", "0", "0", "0", "0">>,
   <<"0", "9", "9", "9", "9", "9", "9", "9", "9", "9">>}

\* Every run of 1..MaxDigits digits, and the literals around the limits.
Literals ==
  UNION {[1..n -> Digits] : n \in 1..MaxDigits} \cup BoundaryLiterals

InitLiteral ==
  /\ build \in BOOLEAN
  /\ SingleEvaluation
  /\ \E src \in Literals : Loaded(src)

NextLiteral ==
  \/ EvalLiteral
  \/ EvalBlock

SpecLiteral == InitLiteral /\ [][NextLiteral]_vars

\* ------------------------------------------------------------------------
\* SpecPair: two source texts, each parsed to its tree and evaluated on its
\* own Context::new(), the steps of the two evaluations interleaved in any
\* order within one process.
\* ------------------------------------------------------------------------

PairPrograms ==
  {Src_PairSet, Src_PairGet, Src_PairCall, Src_AssignShadow, Src_CallUndefinedArg}

\* The machine about to evaluate the tree of `src` (idle when it has none).
StartOf(src) ==
  LET tokens == Tokenize(src)
      tree == parse(tokens.tokens)
  IN  IF tokens.status = "ok" /\ tree.status = "ok"
        THEN MachineStart(tree.out, ContextNew)
        ELSE MachineIdle

InitPair ==
  /\ build \in BOOLEAN
  /\ identifiers = IdentifiersUnset
  /\ \E src \in PairPrograms : Loaded(src)
  /\ \E src \in PairPrograms : peer = [input |-> src, machine |-> StartOf(src)]

EvalFirst ==
  /\ machine.status = "running"
  /\ LET p == eval(Process(machine, identifiers), build)
     IN  machine' = p.machine /\ identifiers' = p.identifiers
  /\ UNCHANGED <<lexer, lexrun, parser, parseout, build, peer>>

EvalSecond ==
  /\ peer.machine.status = "running"
  /\ LET p == eval(Process(peer.machine, identifiers), build)
     IN  peer' = [peer EXCEPT !.machine = p.machine] /\ identifiers' = p.identifiers
  /\ UNCHANGED <<lexer, lexrun, parser, parseout, build, machine>>

NextPair ==
  \/ EvalFirst
  \/ EvalSecond

SpecPair == InitPair /\ [][NextPair]_vars

\* ------------------------------------------------------------------------
\* SpecLex: a Lexer given source texts through set_input and run through
\* tokenize, one turn of its loop at a time; the Lexer is reused.
\* ------------------------------------------------------------------------

LexAlphabet == {"1", "a", "\"", "+", "=", " ", NonAscii}

\* Every text over LexAlphabet of at most MaxSrcLen characters.
LexInputs == UNION {[1..n -> LexAlphabet] : n \in 0..MaxSrcLen}

\* The texts a Lexer that has already been given one is given next.
ReuseInputs == UNION {[1..n -> LexAlphabet] : n \in 0..MaxReuseLen}

InitLex ==
  /\ lexer = LexerNew
  /\ lexrun = LexIdle
  /\ parser = ParserNew
  /\ parseout = ParseIdle
  /\ machine = MachineIdle
  /\ build = TRUE
  /\ SingleEvaluation

LexUnchanged == UNCHANGED <<parser, parseout, machine, build, peer, identifiers>>

SetInput ==
  /\ lexrun.status \in {"idle", "ok", "err"}
  /\ \E src \in (IF lexer = LexerNew THEN LexInputs ELSE ReuseInputs) :
       lexer' = set_input(lexer, src)
  /\ lexrun' = LexIdle
  /\ LexUnchanged

TokenizeCall ==
  /\ lexrun.status \in {"idle", "ok", "err"}
  /\ lexrun' = LexStart
  /\ UNCHANGED lexer
  /\ LexUnchanged

\* A turn of the loop in lexer state `state`.
LexTurn(state) ==
  /\ lexrun.status = "running"
  /\ LexInLoop(lexer)
  /\ LexHasChar(lexer)
  /\ lexer.state = state
  /\ LET p == TokenizeStep(lexer, lexrun)
     IN  lexer' = p.lexer /\ lexrun' = p.run
  /\ LexUnchanged

LexNone == LexTurn("NONE")

LexNumber == LexTurn("NUMBER")

LexIdentifier == LexTurn("IDENTIFIER")

LexString == LexTurn("STRING")

LexSymbol == LexTurn("SYMBOL")

\* `chars().nth(index)` is None inside the loop: the unwrap panics.
LexNoChar ==
  /\ lexrun.status = "running"
  /\ LexInLoop(lexer)
  /\ ~LexHasChar(lexer)
  /\ LET p == TokenizeStep(lexer, lexrun)
     IN  lexer' = p.lexer /\ lexrun' = p.run
  /\ LexUnchanged

\* The loop is over: flush, EOF, return.
LexEnd ==
  /\ lexrun.status = "running"
  /\ ~LexInLoop(lexer)
  /\ LET p == TokenizeStep(lexer, lexrun)
     IN  lexer' = p.lexer /\ lexrun' = p.run
  /\ LexUnchanged

NextLex ==
  \/ SetInput
  \/ TokenizeCall
  \/ LexNone
  \/ LexNumber
  \/ LexIdentifier
  \/ LexString
  \/ LexSymbol
  \/ LexNoChar
  \/ LexEnd

SpecLex == InitLex /\ [][NextLex]_vars

\* ------------------------------------------------------------------------
\* SpecSymbol: tokenize on texts made of a run of symbol characters between
\* a word and a word or a second run.
\* ------------------------------------------------------------------------

SymbolChars == {"+", "-", "*", "/", "=", "!", "&", "|"}

\* Every run of 1..MaxRunLen symbol characters.
SymbolRuns == UNION {[1..n -> SymbolChars] : n \in 1..MaxRunLen}

SymbolTexts ==
  {before \o run \o after :
     before \in {<<>>, <<"a">>},
     run \in SymbolRuns,
     after \in {<<>>, <<"1">>, <<" ", "=", "=">>}}

InitSymbol ==
  /\ build = TRUE
  /\ SingleEvaluation
  /\ parser = ParserNew
  /\ parseout = ParseIdle
  /\ machine = MachineIdle
  /\ \E src \in SymbolTexts : lexer = set_input(LexerNew, src)
  /\ lexrun = LexStart

NextSymbol ==
  \/ LexNone
  \/ LexNumber
  \/ LexIdentifier
  \/ LexSymbol
  \/ LexEnd

SpecSymbol == InitSymbol /\ [][NextSymbol]_vars

\* ------------------------------------------------------------------------
\* SpecParse: Parser::parse on the token vector the lexer returns for a
\* text: every run of at most MaxTokens words, and the texts of Programs.
\* ------------------------------------------------------------------------

ParseWords ==
  {<<"1">>, <<"a">>, <<"+">>, <<"*">>, <<"=">>, <<"i", "f">>, <<"e", "l", "s", "e">>,
   <<"f", "n">>, <<"{">>, <<"}">>, <<"(">>, <<")">>, <<",">>}

RECURSIVE JoinWords(_)
\* The words separated by single spaces.
JoinWords(words) ==
  IF words = <<>> THEN <<>>
  ELSE IF Len(words) = 1 THEN words[1]
  ELSE words[1] \o <<" ">> \o JoinWords(Tail(words))

ShortTexts == {JoinWords(ws) : ws \in UNION {[1..n -> ParseWords] : n \in 0..MaxTokens}}

\* Texts with a binary operator where no operand precedes it, and texts
\* with a `{` that is not closed.
OperatorTexts ==
  {Src_OpTwice,
   Src_OpTwiceLate,
   Src_OpFirst,
   Src_OpFirstAssigned,
   Src_OpTwiceInCall,
   Src_OpFirstInCall,
   Src_OpFirstInBlock,
   Src_Unclosed,
   Src_UnclosedNested}

ParseInputs == ShortTexts \cup Programs \cup OperatorTexts

InitParse ==
  /\ \E src \in ParseInputs :
       LET lexed == TokenizeRun(set_input(LexerNew, src), LexStart)
       IN  /\ lexer = lexed.lexer
           /\ lexrun = lexed.run
           /\ parser = [tokens |-> lexed.run.tokens, pos |-> 0]
  /\ parseout = ParseIdle
  /\ machine = MachineIdle
  /\ build = TRUE
  /\ SingleEvaluation

\* Parser::parse on the tokens set; the cursor stops where parse left it.
ParseCall ==
  /\ lexrun.status = "ok"
  /\ parseout.status = "idle"
  /\ parseout' = parse(parser.tokens)
  /\ parser' = [parser EXCEPT !.pos = parseout'.pos]
  /\ UNCHANGED <<lexer, lexrun, machine, build, peer, identifiers>>

NextParse == ParseCall

SpecParse == InitParse /\ [][NextParse]_vars

\* ------------------------------------------------------------------------
\* Properties
\* ------------------------------------------------------------------------

\* The activation of eval that returned in the step just taken.
Returned == machine.returned

\* The names some scope of `ctx` binds to a variable.
BoundNames(ctx) == UNION {DOMAIN ctx.variables[k] : k \in 1..Len(ctx.variables)}

\* `token` stands right before a `(` in the parser's token vector.
FollowedByLParen(token) ==
  \E k \in 1..(Len(parser.tokens) - 1) :
    parser.tokens[k] = token /\ parser.tokens[k + 1].type = "LPAREN"

RECURSIVE CountQuotes(_)
\* The number of `"` in a text.
CountQuotes(text) ==
  IF text = <<>> THEN 0
  ELSE (IF Head(text) = "\"" THEN 1 ELSE 0) + CountQuotes(Tail(text))

\* C1: in `i = 0 while (i != 3) { i = i + 1 } i` the reassignment in the
\* WHILE body updates the variable the loop sees: each time the body's block
\* returns, the lookup of i gives one more than it gave when the block was
\* entered; and the value the program ends with is INTEGER(3).
C1_LoopBodyUpdatesVariable ==
  lexer.input = Src_Loop =>
    /\ (Returned.node.token.value = <<"while_block">> /\ machine.ret.tag = "Ok") =>
         get_variable(machine.ctx, <<"i">>) =
           [some |-> TRUE,
            val |-> INTEGER(get_variable(Returned.entry, <<"i">>).val.i + 1)]
    /\ machine.status = "done" => machine.ret = Ok(INTEGER(3))

\* C2: when the body of a called function is about to run, every parameter
\* whose argument is a plain variable holds the value that variable had in
\* the caller's Context, as it was when the call was entered.
C2_ArgumentsReadCallerScope ==
  (machine.status = "running" /\ Len(machine.frames) >= 2) =>
    LET call == machine.frames[Len(machine.frames) - 1]
        body == Top(machine)
        scope == machine.ctx.variables[Len(call.entry.variables) + 1]
    IN  (call.node.token.type = "IDENTIFIER" /\ call.pc = "body" /\ body.pc = "start") =>
          \A k \in 1..Len(call.fparams) :
            LET arg == call.node.children[k]
            IN  (arg.token.type = "IDENTIFIER" /\ arg.children = <<>>) =>
                  /\ call.fparams[k] \in DOMAIN scope
                  /\ scope[call.fparams[k]] =
                       get_variable(call.entry, arg.token.value).val

\* C3: a name written with `(` after it is evaluated as a function call and
\* never as the lookup of a variable, so that `fn f() { 1 } f()` ends with
\* INTEGER(1).
C3_CallWithoutArgumentsIsACall ==
  /\ (Returned.node.token.type = "IDENTIFIER" /\ Returned.node.children = <<>>) =>
       ~FollowedByLParen(Returned.node.token)
  /\ (lexer.input = Src_CallNoArgs /\ machine.status = "done") =>
       machine.ret = Ok(INTEGER(1))

\* C4: on the tokens the lexer returns for a text, parse ends with a tree or
\* with a ParseError: no `expect` of parse_expression (and no index) panics.
C4_ParseNeverPanics ==
  parseout.status \in {"idle", "ok", "err"}

\* C5: a `/` whose operands are integers and whose divisor is 0 returns the
\* division-by-zero error, whatever the dividend, and the evaluation of such
\* a `/` never aborts.
C5_DivisionByZeroIsAnError ==
  /\ (/\ Returned.node.token.type = "BINARYOP"
      /\ Returned.node.token.value = <<"/">>
      /\ Returned.pc = "right"
      /\ Returned.val.t = "INTEGER"
      /\ Returned.val2 = INTEGER(0)) =>
       machine.ret = Err("DivisionByZero", <<"/">>, Returned.node.token.pos)
  /\ (/\ machine.status = "panic"
      /\ Top(machine).node.token.type = "BINARYOP"
      /\ Top(machine).node.token.value = <<"/">>
      /\ Top(machine).pc = "right"
      /\ Top(machine).val.t = "INTEGER") =>
       machine.ret # Ok(INTEGER(0))

\* C5 (witness): the `/` of `m / 0` has returned the error, m the least i32.
C5_Witness ==
  /\ Returned.node.token.value = <<"/">>
  /\ Returned.val = INTEGER(I32_MIN)
  /\ Returned.val2 = INTEGER(0)
  /\ machine.ret.tag = "Err"
  /\ machine.ret.err.kind = "DivisionByZero"

\* C6: a call whose number of arguments differs from the function's number
\* of parameters returns a wrong-argument-count error: the evaluation does
\* not abort in the call, and the call returns nothing else.
C6_ArityMismatchIsAnError ==
  /\ (machine.status = "panic" /\ Top(machine).node.token.type = "IDENTIFIER") =>
       Len(Top(machine).node.children) = Len(Top(machine).fparams)
  /\ (/\ Returned.node.token.type = "IDENTIFIER"
      /\ Returned.pc = "body"
      /\ Len(Returned.node.children) # Len(Returned.fparams)) =>
       /\ machine.ret.tag = "Err"
       /\ machine.ret.err.kind = "WrongArgumentCount"

\* C7: tokenize on a text that leaves a string open at its end (a text with
\* an odd number of `"`) returns neither tokens nor aborts: it can only end
\* with a LexError.
C7_UnterminatedStringIsLexError ==
  lexrun.status \in {"ok", "panic"} => CountQuotes(lexer.input) % 2 = 0

\* C8: a function defined in a block is called by a later statement of the
\* block (the program yields the body's value), and a call of it after the
\* block ends with the missing-function error, with and without arguments.
C8_FunctionLivesInItsBlock ==
  machine.status = "done" =>
    /\ lexer.input \in {Src_FnInBlock, Src_FnNoArgsInBlock} =>
         machine.ret = Ok(INTEGER(1))
    /\ lexer.input \in {Src_FnAfterBlock, Src_FnNoArgsAfterBlock} =>
         (machine.ret.tag = "Err" /\ machine.ret.err.kind = "UnsetFunction")

\* C9: when an IF has returned a value, the lookup of every name gives what
\* it gave when the IF was entered: nothing assigned in its then-block or
\* else-block is visible.
C9_IfLeavesLookupsUnchanged ==
  (Returned.node.token.type = "IF" /\ machine.ret.tag = "Ok") =>
    \A name \in BoundNames(machine.ctx) \cup BoundNames(Returned.entry) :
      get_variable(machine.ctx, name) = get_variable(Returned.entry, name)

\* C9 (witness): an IF has returned whose condition was true and whose
\* then-block assigns a name that an enclosing scope binds.
C9_Witness ==
  /\ Returned.node.token.type = "IF"
  /\ machine.ret.tag = "Ok"
  /\ Returned.val = BOOL(TRUE)
  /\ \E c \in 1..Len(Returned.node.children[2].children) :
       LET stmt == Returned.node.children[2].children[c]
       IN  /\ stmt.token.type = "ASSIGN"
           /\ get_variable(Returned.entry, stmt.children[1].token.value).some

\* The step in which an ASSIGN, its right child evaluated, binds and returns.
C10_AssignStep ==
  (Running /\ TopType = "ASSIGN" /\ Top(machine).pc = "value") =>
    LET f == Top(machine)
        name == f.node.children[1].token.value
        n == Len(machine.ctx.variables)
    IN  IF machine.ret.tag = "Ok"
          THEN /\ machine'.ret = Ok(NULL)
               /\ Len(machine'.ctx.variables) = n
               /\ Len(f.entry.variables) = n
               /\ \A k \in 1..(n - 1) :
                    machine'.ctx.variables[k] = f.entry.variables[k]
               /\ DOMAIN machine'.ctx.variables[n] =
                    DOMAIN machine.ctx.variables[n] \cup {name}
               /\ \A other \in DOMAIN machine'.ctx.variables[n] :
                    machine'.ctx.variables[n][other] =
                      IF other = name THEN machine.ret.val
                                      ELSE machine.ctx.variables[n][other]
               /\ machine'.ctx.functions = machine.ctx.functions
          ELSE /\ machine'.ret = machine.ret
               /\ machine'.ctx = machine.ctx
               /\ SubSeq(machine'.ctx.variables, 1, Len(f.entry.variables)) =
                    f.entry.variables

\* C10: an ASSIGN binds the value of its right child to its name in the
\* innermost scope and yields NULL; the scopes below are as they were when
\* the ASSIGN was entered, the other names of the innermost scope and the
\* functions are untouched; when the right child fails, the error is handed
\* on and the scopes the ASSIGN was entered with hold no new binding.
C10_AssignBindsInnermostOnly == [][C10_AssignStep]_vars

\* C10 (witness): an ASSIGN has returned NULL whose name was bound by a
\* scope below the innermost one and not by the innermost one.
C10_Witness ==
  /\ Returned.node.token.type = "ASSIGN"
  /\ machine.ret = Ok(NULL)
  /\ LET name == Returned.node.children[1].token.value
         n == Len(Returned.entry.variables)
     IN  /\ n >= 2
         /\ name \notin DOMAIN Returned.entry.variables[n]
         /\ \E k \in 1..(n - 1) : name \in DOMAIN Returned.entry.variables[k]
         /\ machine.ctx.variables[n][name] = Returned.val

\* The priorities the operators are documented to have.
ClaimedPrecedence(op) ==
  CASE op \in {<<"=", "=">>, <<"!", "=">>, <<"&", "&">>, <<"|", "|">>} -> 1
    [] op \in {<<"+">>, <<"-">>} -> 2
    [] op \in {<<"*">>, <<"/">>} -> 3

\* The tree of `left token right`.
BinaryNode(token, left, right) == [token |-> token, children |-> <<left, right>>]

\* The parser's tokens are `a op1 b op2 c` and EOF.
IsTwoOperatorExpression ==
  /\ Len(parser.tokens) = 6
  /\ \A k \in {1, 3, 5} : parser.tokens[k].type \in {"NUMERIC", "IDENTIFIER", "STRING"}
  /\ \A k \in {2, 4} : parser.tokens[k].type = "BINARYOP"
  /\ parser.tokens[6].type = "EOF"

\* C11: `a op1 b op2 c` is parsed as `a op1 (b op2 c)` when op2 has strictly
\* higher precedence than op1 and as `(a op1 b) op2 c` otherwise; `2 + 3 * 4`
\* evaluates to INTEGER(14) and `8 - 3 - 2` to INTEGER(3).
C11_PrecedenceAndLeftAssociativity ==
  /\ IsTwoOperatorExpression =>
       LET t == parser.tokens
           a == ASTreeNew(t[1])
           b == ASTreeNew(t[3])
           c == ASTreeNew(t[5])
       IN  /\ parseout.status = "ok"
           /\ parseout.out.children =
                <<IF ClaimedPrecedence(t[4].value) > ClaimedPrecedence(t[2].value)
                    THEN BinaryNode(t[2], a, BinaryNode(t[4], b, c))
                    ELSE BinaryNode(t[4], BinaryNode(t[2], a, b), c)>>
  /\ (lexer.input = Src_Precedence /\ machine.status = "done") =>
       machine.ret = Ok(INTEGER(14))
  /\ (lexer.input = Src_LeftAssoc /\ machine.status = "done") =>
       machine.ret = Ok(INTEGER(3))

\* C11 (witness): `8 - 3 - 2`, two operators of one precedence, has been
\* parsed and evaluated to its end.
C11_Witness ==
  /\ lexer.input = Src_LeftAssoc
  /\ IsTwoOperatorExpression
  /\ machine.status = "done"
  /\ machine.ret.tag = "Ok"

\* The operators the type table lists for a pair of operand types.
TableOperators(type1, type2) ==
  CASE type1 = "INTEGER" /\ type2 = "INTEGER" ->
         {<<"+">>, <<"-">>, <<"*">>, <<"/">>, <<"=", "=">>, <<"!", "=">>}
    [] type1 = "BOOL" /\ type2 = "BOOL" -> {<<"&", "&">>, <<"|", "|">>}
    [] type1 = "STRING" /\ type2 = "STRING" -> {<<"+">>, <<"=", "=">>, <<"!", "=">>}
    [] OTHER -> {}

\* The type of the value an operator of the table yields.
TableResultType(type1, op) ==
  IF op \in {<<"=", "=">>, <<"!", "=">>, <<"&", "&">>, <<"|", "|">>} THEN "BOOL"
  ELSE type1

\* A BINARYOP whose two operands were evaluated has returned.
BinaryOpReturned ==
  Returned.node.token.type = "BINARYOP" /\ Returned.pc = "right"

\* What the table says of a returned BINARYOP with a listed operator: a
\* value of the operator's type (or, for `/`, the division-by-zero error).
ListedOperatorYieldsValue ==
  \/ /\ machine.ret.tag = "Ok"
     /\ machine.ret.val.t = TableResultType(Returned.val.t, Returned.node.token.value)
  \/ /\ Returned.node.token.value = <<"/">>
     /\ Returned.val2 = INTEGER(0)
     /\ machine.ret.tag = "Err"
     /\ machine.ret.err.kind = "DivisionByZero"

\* The type-mismatch error of a returned BINARYOP: it names both operands.
IsTypeMismatch ==
  machine.ret = ErrMismatch(Returned.node.token.value, Returned.node.token.pos,
                            Returned.val, Returned.val2)

C13_BinaryOpStep ==
  /\ (Running /\ TopType = "BINARYOP" /\ Top(machine).pc = "start") =>
       /\ Len(machine'.frames) = Len(machine.frames) + 1
       /\ Top(machine').node = Child(Top(machine).node, 0)
  /\ (/\ Running /\ TopType = "BINARYOP" /\ Top(machine).pc = "left"
      /\ machine.ret.tag = "Ok") =>
       /\ Len(machine'.frames) = Len(machine.frames) + 1
       /\ Top(machine').node = Child(Top(machine).node, 1)
       /\ machine'.ctx = machine.ctx
  /\ (/\ Running /\ TopType = "BINARYOP" /\ Top(machine).pc = "right"
      /\ machine.ret.tag = "Err") =>
       /\ machine'.returned = Top(machine)
       /\ machine'.ret = machine.ret
  /\ (machine'.status = "done" /\ lexer.input = Src_AndFalseError) =>
       machine'.ret = Err("UnsetIdentifier", <<"q">>, 16)
  /\ (machine'.status = "done" /\ lexer.input = Src_OrTrueError) =>
       machine'.ret = Err("DivisionByZero", <<"/">>, 18)

C13_BothOperandsAreEvaluated == [][C13_BinaryOpStep]_vars

\* C13 witness: an `&&` whose left operand was false has returned the error
\* of its right operand.
C13_Witness ==
  /\ Returned.node.token.value = <<"&", "&">>
  /\ Returned.pc = "right"
  /\ Returned.val = BOOL(FALSE)
  /\ machine.ret = Err("UnsetIdentifier", <<"q">>, 16)

\* C14: once a call of eval has returned an error, every later step of the
\* evaluation is a return of that same error by the caller: no statement of
\* the block or of an enclosing block is evaluated, the Context changes by
\* the pop of a scope at most, and the result of the program is that error.
C14_ErrorStep ==
  (Running /\ machine.ret.tag = "Err") =>
    /\ machine'.ret = machine.ret
    /\ machine'.frames = SubSeq(machine.frames, 1, Len(machine.frames) - 1)
    /\ machine'.returned = Top(machine)
    /\ machine'.ctx \in {machine.ctx, pop_scope(machine.ctx)}

C14_FirstErrorAborts == [][C14_ErrorStep]_vars

\* C14 witness: the error of `1 / 0` in the inner block of
\* `x = 1 { { 1 / 0 } x = 2 } x = 3` is the result of the program, and x is
\* still 1.
C14_Witness ==
  /\ lexer.input = Src_AbortNested
  /\ machine.status = "done"
  /\ machine.ret.tag = "Err"
  /\ machine.ret.err.kind = "DivisionByZero"
  /\ get_variable(machine.ctx, <<"x">>).val = INTEGER(1)

\* C15: whatever a Lexer tokenized before, with or without an error, once
\* set_input(s) is called on it tokenize returns what it returns for s on a
\* Lexer::new(): the same tokens (kinds, texts, offsets) or the same error.
C15_SetInputStep ==
  (lexrun.status \in {"ok", "err"} /\ lexrun'.status = "idle") =>
    /\ TokenizeRun(lexer', LexStart).run = Tokenize(lexer'.input)
    /\ lexer' = set_input(LexerNew, lexer'.input)

C15_TokenizeDependsOnSourceOnly == [][C15_SetInputStep]_vars

\* C15 witness: a tokenize has ended in an error and left the Lexer with
\* the text of a token in progress, in a state other than NONE, past the
\* start of its input.
C15_Witness ==
  /\ lexrun.status = "err"
  /\ lexer.state # "NONE"
  /\ lexer.current_token_string # <<>>
  /\ lexer.index > 0

\* C16: the step that ends a tokenize with Ok leaves a token vector whose
\* last token is EOF and that has no EOF before it; a token in progress at
\* the end of the input is pushed, with its text and offset, right before
\* the EOF, and no text is left in progress; on the empty input the vector
\* is [EOF].
C16_EndStep ==
  (lexrun.status = "running" /\ lexrun'.status = "ok") =>
    LET tokens == lexrun'.tokens
        n == Len(tokens)
    IN  /\ n >= 1
        /\ tokens[n] = Token("EOF", <<>>, lexer'.index)
        /\ \A k \in 1..(n - 1) : tokens[k].type # "EOF"
        /\ lexer'.current_token_string = <<>>
        /\ lexer.current_token_string = <<>> => n = Len(lexrun.tokens) + 1
        /\ lexer.current_token_string # <<>> =>
             /\ n = Len(lexrun.tokens) + 2
             /\ tokens[n - 1].value = lexer.current_token_string
             /\ tokens[n - 1].pos = lexer.current_token_position
        /\ SubSeq(tokens, 1, Len(lexrun.tokens)) = lexrun.tokens
        /\ lexer.input = <<>> => tokens = <<Token("EOF", <<>>, 0)>>

C16_EofEndsEveryTokenVector == [][C16_EndStep]_vars

\* C16 witness: tokenize returned a number that runs to the end of the
\* input, pushed by the flush, and then the EOF.
C16_Witness ==
  /\ lexrun.status = "ok"
  /\ Len(lexrun.tokens) = 3
  /\ lexrun.tokens[2].type = "NUMERIC"
  /\ lexrun.tokens[2].pos + Len(lexrun.tokens[2].value) = Len(lexer.input)
  /\ lexrun.tokens[3] = Token("EOF", <<>>, Len(lexer.input))

\* C17: after any sequence of push_scope, pop_scope, set_variable and
\* set_function on a Context::new(), the variables stack and the functions
\* stack have the same depth.
C17_StacksHaveEqualDepth ==
  Len(machine.ctx.variables) = Len(machine.ctx.functions)

\* C17 witness: a Context two scopes deep, with a variable in
\* the outer scope and a function in the inner one.
C17_Witness ==
  /\ machine.status = "idle"
  /\ Len(machine.ctx.variables) = 2
  /\ <<"a">> \in DOMAIN machine.ctx.variables[1]
  /\ <<"b">> \in DOMAIN machine.ctx.functions[2]

\* The node that returned is a name written with `(` after it: a call.
CallReturned ==
  /\ Returned.node.token.type = "IDENTIFIER"
  /\ FollowedByLParen(Returned.node.token)

\* C18: a call of a function that is defined where the call starts, with as
\* many arguments as the function has parameters, takes the function's body
\* and parameters, runs the body with every parameter bound in the scope
\* pushed for the call, and when it returns a value that value is the
\* body's and the Context is the one the call started with (the scope is
\* popped: nothing bound during the call is left); `fn add(a, b) { a + b }
\* add(2, 3)` ends with INTEGER(5).
C18_CallRunsBodyInItsOwnScope ==
  /\ (/\ CallReturned
      /\ get_function_body(Returned.entry, Returned.node.token.value).some
      /\ Len(get_function_params(Returned.entry, Returned.node.token.value).val) =
           Len(Returned.node.children)) =>
       /\ Returned.fbody =
            get_function_body(Returned.entry, Returned.node.token.value).val
       /\ machine.ret.tag = "Ok" =>
            (Returned.pc = "body" /\ machine.ctx = Returned.entry)
  /\ (Running /\ Len(machine.frames) >= 2) =>
       LET call == machine.frames[Len(machine.frames) - 1]
       IN  (/\ call.node.token.type = "IDENTIFIER"
            /\ call.pc = "body"
            /\ Top(machine).pc = "start"
            /\ Len(call.fparams) = Len(call.node.children)) =>
             /\ Len(machine.ctx.variables) = Len(call.entry.variables) + 1
             /\ \A k \in 1..Len(call.fparams) :
                  call.fparams[k] \in
                    DOMAIN machine.ctx.variables[Len(machine.ctx.variables)]
  /\ (lexer.input = Src_Add /\ machine.status = "done") =>
       machine.ret = Ok(INTEGER(5))

\* C19: a call of a name that no scope binds to a function when the call
\* starts returns the missing-function error and leaves the Context as it
\* was.
C19_UndefinedFunctionIsAnError ==
  (/\ CallReturned
   /\ ~get_function_body(Returned.entry, Returned.node.token.value).some) =>
    /\ machine.ret = Err("UnsetFunction", Returned.node.token.value,
                         Returned.node.token.pos)
    /\ machine.ctx = Returned.entry

RECURSIVE StripZeros(_)
\* A run of digits without its leading zeros.
StripZeros(text) ==
  IF text # <<>> /\ Head(text) = "0" THEN StripZeros(Tail(text)) ELSE text

\* The digits of 2^31 - 1.
MaxLiteral == <<"2", "1", "4", "7", "4", "8", "3", "6", "4", "7">>

\* The number a run of digits denotes is at most 2^31 - 1: fewer
\* significant digits than 2147483647, or as many and not after it in
\* the order of the digits.
FitsI32(text) ==
  LET s == StripZeros(text)
  IN  \/ Len(s) < Len(MaxLiteral)
      \/ /\ Len(s) = Len(MaxLiteral)
         /\ \/ s = MaxLiteral
            \/ \E k \in 1..Len(s) :
                 /\ SubSeq(s, 1, k - 1) = SubSeq(MaxLiteral, 1, k - 1)
                 /\ DigitValue(s[k]) < DigitValue(MaxLiteral[k])

RECURSIVE DecimalValue(_)
\* The number a run of digits denotes, from its last digit back.
DecimalValue(text) ==
  IF text = <<>> THEN 0
  ELSE DigitValue(text[Len(text)]) + 10 * DecimalValue(SubSeq(text, 1, Len(text) - 1))

\* C20: a source text that is one decimal literal whose value fits i32 is
\* tokenized, parsed and evaluated to INTEGER of that value.
C20_LiteralRoundTrip ==
  FitsI32(lexer.input) =>
    /\ machine.status \in {"running", "done"}
    /\ machine.status = "done" =>
         machine.ret = Ok(INTEGER(DecimalValue(StripZeros(lexer.input))))

\* C20 witness: the literal 2147483647 has been evaluated to INTEGER(2^31 - 1).
C20_Witness ==
  /\ lexer.input = MaxLiteral
  /\ machine.status = "done"
  /\ machine.ret = Ok(INTEGER(I32_MAX))

ValidRuns == BinaryOpTexts \cup {<<"=">>}

\* The places (from 1) of `text` where a maximal run of symbol characters
\* starts.
RunStarts(text) ==
  {k \in 1..Len(text) :
     /\ is_valid_symbol(text[k])
     /\ k = 1 \/ ~is_valid_symbol(text[k - 1])}

\* The maximal run of symbol characters that starts at place k.
RunAt(text, k) ==
  LET last == CHOOSE e \in k..Len(text) :
                /\ \A j \in k..e : is_valid_symbol(text[j])
                /\ e = Len(text) \/ ~is_valid_symbol(text[e + 1])
  IN  SubSeq(text, k, last)

\* The maximal runs of symbol characters of `text`, with their offsets.
MaximalRuns(text) ==
  {[value |-> RunAt(text, k), pos |-> k - 1] : k \in RunStarts(text)}

\* C22: on a text of letters, digits, spaces and symbol characters,
\* tokenize ends with Ok exactly when every maximal run of symbol
\* characters is one of + - * / == != && || =; the BINARYOP and ASSIGN
\* tokens are then those runs, one token a run, with the run's text and
\* offset (ASSIGN for `=`, BINARYOP for the others).  Otherwise it ends
\* with the invalid-symbol error on the first run that is not an operator.
C22_SymbolRunIsOneToken ==
  LET text == lexer.input
      runs == MaximalRuns(text)
      bad == {r \in runs : r.value \notin ValidRuns}
      symbols == {k \in 1..Len(lexrun.tokens) :
                    lexrun.tokens[k].type \in {"BINARYOP", "ASSIGN"}}
  IN  (/\ lexrun.status \notin {"idle", "running"}
       /\ \A k \in 1..Len(text) : text[k] \in SymbolChars \cup {"a", "1", " "}) =>
        /\ lexrun.status \in {"ok", "err"}
        /\ lexrun.status = "ok" <=> bad = {}
        /\ lexrun.status = "ok" =>
             /\ Cardinality(symbols) = Cardinality(runs)
             /\ {[value |-> lexrun.tokens[k].value, pos |-> lexrun.tokens[k].pos] :
                   k \in symbols} = runs
             /\ \A k \in symbols :
                  lexrun.tokens[k].type = "ASSIGN" <=> lexrun.tokens[k].value = <<"=">>
        /\ lexrun.status = "err" =>
             /\ lexrun.err.kind = "InvalidSymbol"
             /\ [value |-> lexrun.err.text, pos |-> lexrun.err.pos] \in bad
             /\ \A r \in bad : lexrun.err.pos <= r.pos

\* C22 witness: `a=-1` has ended with the invalid-symbol error on the run
\* `=-` at offset 1.
C22_Witness ==
  /\ lexer.input = <<"a", "=", "-", "1">>
  /\ lexrun.status = "err"
  /\ lexrun.err = LexErr("InvalidSymbol", <<"=", "-">>, 1)

\* The token at place k (from 1) is an operand that is not a call.
IsPlainOperand(tokens, k) ==
  /\ tokens[k].type \in {"NUMERIC", "IDENTIFIER", "STRING"}
  /\ ~(k < Len(tokens) /\ tokens[k + 1].type = "LPAREN")

\* The places q such that, from place p, operands and operators alternate
\* up to q and the token at q is an operator in the place of an operand:
\* the expression that starts at p begins with it (q = p) or has it right
\* after another operator.
MisplacedOperators(tokens, p) ==
  {q \in p..Len(tokens) :
     /\ (q - p) % 2 = 0
     /\ tokens[q].type = "BINARYOP"
     /\ \A j \in 0..((q - p) \div 2 - 1) :
          /\ IsPlainOperand(tokens, p + 2 * j)
          /\ tokens[p + 2 * j + 1].type = "BINARYOP"}

\* C23: parse_expression started on an expression that begins with a
\* BINARYOP token, or in which a BINARYOP token comes right after another,
\* returns the error of the operator placement at the position of that
\* operator and no tree; parse never returns a tree for a token vector with
\* a BINARYOP first or two BINARYOP tokens side by side.
C23_MisplacedOperatorIsSyntaxError ==
  LET tokens == parser.tokens
  IN  /\ \A p \in 1..Len(tokens) : \A q \in MisplacedOperators(tokens, p) :
           LET r == parse_expression(tokens, p - 1)
           IN  /\ r.status = "err"
               /\ r.err = ParseErr("InvalidOperatorPlacement", tokens[q].pos, "", "")
               /\ r.out = <<>>
      /\ (parseout.status # "idle" /\ MisplacedOperators(tokens, 1) # {}) =>
           /\ parseout.status = "err"
           /\ parseout.err.kind = "InvalidOperatorPlacement"
           /\ \E q \in MisplacedOperators(tokens, 1) : parseout.err.pos = tokens[q].pos
      /\ parseout.status = "ok" =>
           /\ tokens[1].type # "BINARYOP"
           /\ \A k \in 1..(Len(tokens) - 1) :
                ~(tokens[k].type = "BINARYOP" /\ tokens[k + 1].type = "BINARYOP")

\* C23 witness: parse of `1 + 2 * * 3` has returned the error of the
\* operator placement at offset 8, the second `*`.
C23_Witness ==
  /\ lexer.input = Src_OpTwiceLate
  /\ parseout.status = "err"
  /\ parseout.err = ParseErr("InvalidOperatorPlacement", 8, "", "")

RECURSIVE Nodes(_)
\* The nodes of a tree.
Nodes(tree) ==
  {tree} \cup UNION {Nodes(tree.children[k]) : k \in 1..Len(tree.children)}

\* C24: in a tree returned by parse the value child of every ASSIGN node is
\* an expression node (NUMERIC, STRING, IDENTIFIER or BINARYOP), never an
\* IF, WHILE, FN, BLOCK or ASSIGN node.
C24_AssignedValueIsExpression ==
  parseout.status = "ok" =>
    \A node \in Nodes(parseout.out) :
      node.token.type = "ASSIGN" =>
        /\ Len(node.children) = 2
        /\ node.children[2].token.type \in
             {"NUMERIC", "STRING", "IDENTIFIER", "BINARYOP"}

\* C25: whenever a call of eval returns, with a value or with an error, the
\* two scope stacks are as deep as they were when it was entered.
C25_ScopesArePoppedOnEveryReturn ==
  Returned # NoFrame =>
    /\ Len(machine.ctx.variables) = Len(Returned.entry.variables)
    /\ Len(machine.ctx.functions) = Len(Returned.entry.functions)

\* The stacks of `ctx`, cut to the depth of `entry`, are those of `entry`.
KeepsScopesOf(ctx, entry) ==
  /\ Len(ctx.variables) >= Len(entry.variables)
  /\ Len(ctx.functions) >= Len(entry.functions)
  /\ SubSeq(ctx.variables, 1, Len(entry.variables)) = entry.variables
  /\ SubSeq(ctx.functions, 1, Len(entry.functions)) = entry.functions

\* C26: a scope-creating block and a function call return with every scope
\* that existed at their entry unchanged; each time the condition of a
\* WHILE is about to be evaluated the Context is the one the WHILE was
\* entered with; and a WHILE returns a value (NULL) only when its condition,
\* evaluated on the Context at its entry, is BOOL false: a WHILE whose
\* condition is true at first never returns NULL.
C26_WhileConditionNeverChanges ==
  /\ (\/ Returned.node.token.type = "BLOCK(true)"
      \/ Returned.node.token.type = "IDENTIFIER" /\ Returned.pc \in {"arg", "body"}) =>
       KeepsScopesOf(machine.ctx, Returned.entry)
  /\ (Running /\ Len(machine.frames) >= 2) =>
       LET loop == machine.frames[Len(machine.frames) - 1]
       IN  (/\ loop.node.token.type = "WHILE"
            /\ loop.pc = "cond"
            /\ Top(machine).pc = "start") =>
             machine.ctx = loop.entry
  /\ (Returned.node.token.type = "WHILE" /\ machine.ret.tag = "Ok") =>
       /\ machine.ret = Ok(NULL)
       /\ EvalRun(Process(MachineStart(Child(Returned.node, 0), Returned.entry),
                          IdentifiersUnset), build).machine.ret = Ok(BOOL(FALSE))

\* C26 witness: in `i = 0 while (i != 3) { i = i + 1 } i` the condition is
\* about to be evaluated again, after a run of the body, on the Context the
\* WHILE was entered with.
C26_Witness ==
  /\ lexer.input = Src_Loop
  /\ Running
  /\ Len(machine.frames) >= 2
  /\ machine.frames[Len(machine.frames) - 1].node.token.type = "WHILE"
  /\ machine.frames[Len(machine.frames) - 1].pc = "cond"
  /\ machine.frames[Len(machine.frames) - 1].val = BOOL(TRUE)
  /\ Top(machine).pc = "start"
  /\ machine.ctx = machine.frames[Len(machine.frames) - 1].entry

\* The token at place p (from 0) is a `{` with no `}` anywhere after it.
Unclosed(tokens, p) ==
  /\ tokens[p + 1].type = "LBRACE"
  /\ \A k \in (p + 2)..Len(tokens) : tokens[k].type # "RBRACE"

\* C27: on the tokens of a text (they end with EOF) parse ends with a tree
\* or with an error; parse_statement called at any place of the vector ends
\* with a tree or an error too, has moved the cursor forward when it
\* returns a tree, leaves it on the EOF token at most, and never indexes
\* the vector outside of it; started on a `{` that nothing closes it
\* returns an error, the one of the EOF token when statements fill the
\* rest of the text.
C27_ParseTerminatesWithinTokens ==
  LET tokens == parser.tokens
  IN  lexrun.status = "ok" =>
        /\ tokens[Len(tokens)].type = "EOF"
        /\ parseout.status \in {"idle", "ok", "err"}
        /\ parser.pos <= Len(tokens) - 1
        /\ \A p \in 0..(Len(tokens) - 1) :
             LET r == parse_statement(tokens, p)
             IN  /\ r.status \in {"ok", "err"}
                 /\ r.status = "ok" => r.pos > p
                 /\ r.pos <= Len(tokens) - 1
                 /\ Unclosed(tokens, p) => r.status = "err"
        /\ lexer.input \in {Src_Unclosed, Src_UnclosedNested} =>
             parse(tokens) = PErr(ParseErr("ParseEOF", 0, "", ""), Len(tokens) - 1)

\* The operator and the operands of a BINARYOP activation are those of the
\* integer arithmetic: + - * / on two integers.
IntegerArithmetic(f, right) ==
  /\ f.node.token.type = "BINARYOP"
  /\ f.node.token.value \in {<<"+">>, <<"-">>, <<"*">>, <<"/">>}
  /\ f.pc = "right"
  /\ f.val.t = "INTEGER"
  /\ right.t = "INTEGER"

\* C28: + - * / on two integers never abort the process, and a value they
\* return is an INTEGER between -2^31 and 2^31 - 1.
C28_IntegerArithmeticNeverAborts ==
  /\ machine.status = "panic" => ~IntegerArithmetic(Top(machine), machine.ret.val)
  /\ (IntegerArithmetic(Returned, Returned.val2) /\ machine.ret.tag = "Ok") =>
       /\ machine.ret.val.t = "INTEGER"
       /\ machine.ret.val.i >= I32_MIN
       /\ machine.ret.val.i <= I32_MAX

\* C29: a Context has its global scope from Context::new() on: no call of
\* set_variable or set_function on a Context::new() meets an empty scope
\* stack (the unwrap of `last_mut()` does not abort the process), and no
\* step of an evaluation aborts on an empty scope stack.
C29_SetStep ==
  /\ (machine.status = "idle" /\ machine.ctx = ContextNew) =>
       machine'.status # "panic"
  /\ (Running /\ machine'.status = "panic") =>
       (HasVariableScope(machine.ctx) /\ HasFunctionScope(machine.ctx))

C29_GlobalScopeFromTheStart == [][C29_SetStep]_vars

\* C30: the access of a variable returns the binding of the innermost scope
\* that binds the name on the stack as it is when the access is evaluated,
\* and the unset-identifier error when no scope does.  In a function body a
\* name that is no parameter is therefore read from the caller's scopes:
\* `x = 1 fn f(a) { x + a } { x = 5 f(1) }` is INTEGER(6) (the x of the
\* block the call is in, not the x of the definition), a y bound after the
\* definition of f is read by f, g's parameter is read by the f that g
\* calls, and a z bound nowhere on the stack of the call is an error.
C30_NamesResolveOnTheCallStack ==
  /\ (/\ Returned.node.token.type = "IDENTIFIER"
      /\ Returned.node.children = <<>>
      /\ Returned.pc = "start") =>
       LET name == Returned.node.token.value
           stack == Returned.entry.variables
           scopes == {k \in 1..Len(stack) : name \in DOMAIN stack[k]}
       IN  IF scopes = {}
             THEN machine.ret = Err("UnsetIdentifier", name, Returned.node.token.pos)
             ELSE \E k \in scopes :
                    /\ \A j \in scopes : j <= k
                    /\ machine.ret = Ok(stack[k][name])
  /\ machine.status = "done" =>
       /\ lexer.input = Src_DynamicShadow => machine.ret = Ok(INTEGER(6))
       /\ lexer.input = Src_DynamicLate => machine.ret = Ok(INTEGER(2))
       /\ lexer.input = Src_DynamicCaller => machine.ret = Ok(INTEGER(7))
       /\ lexer.input = Src_DynamicUnset =>
            machine.ret = Err("UnsetIdentifier", <<"z">>, 10)

\* C30 witness: the x in the body of f has been read as 5, the binding of
\* the block that calls f, with the x = 1 of the definition below it.
C30_Witness ==
  /\ lexer.input = Src_DynamicShadow
  /\ Returned.node.token.value = <<"x">>
  /\ Returned.pc = "start"
  /\ Len(Returned.entry.variables) = 3
  /\ Returned.entry.variables[1][<<"x">>] = INTEGER(1)
  /\ machine.ret = Ok(INTEGER(5))

\* The names bound to a function in some scope of `ctx`.
FunctionNames(ctx) ==
  UNION {DOMAIN ctx.functions[k] : k \in 1..Len(ctx.functions)}

\* Scope k of `stack` is the innermost one that binds `name`.
IsInnermostBinder(stack, name, k) ==
  /\ k \in 1..Len(stack)
  /\ name \in DOMAIN stack[k]
  /\ \A j \in (k + 1)..Len(stack) : name \notin DOMAIN stack[j]

\* C31: on every Context of an evaluation get_function_body and
\* get_function_params find a name together, and both return the fields of
\* the one definition held by the innermost scope that binds the name; a
\* function definition that returns has put its parameters and its body
\* together under its name in the innermost scope, replacing what the name
\* had there, and has left every other name and every outer scope alone; a
\* call that looks its name up runs with the body and the parameters of the
\* innermost definition of the Context it started on, and is an
\* unset-function error when no scope binds the name.  `fn f(a) { a }
\* fn f(a, b) { b } f(1, 2)` is 2, `fn f(a, b) { b } fn f(a) { a + 1 } f(5)`
\* is 6, `fn f(a) { 1 } { fn f(a, b) { 2 } f(0, 0) } f(0)` is 1 and
\* `fn f(a) { 1 } fn g(a) { fn f(a) { 2 } f(0) } g(0) + f(0)` is 3.
C31_FunctionLookupIsInnermost ==
  /\ \A name \in FunctionNames(machine.ctx) :
       \E k \in 1..Len(machine.ctx.functions) :
         /\ IsInnermostBinder(machine.ctx.functions, name, k)
         /\ get_function_body(machine.ctx, name) =
              [some |-> TRUE, val |-> machine.ctx.functions[k][name].body]
         /\ get_function_params(machine.ctx, name) =
              [some |-> TRUE, val |-> machine.ctx.functions[k][name].params]
  /\ (Returned.node.token.type = "FN" /\ machine.ret.tag = "Ok") =>
       LET name == Returned.node.children[1].token.value
           before == Returned.entry.functions
           after == machine.ctx.functions
           top == Len(before)
       IN  /\ Len(after) = top
           /\ \A k \in 1..(top - 1) : after[k] = before[k]
           /\ DOMAIN after[top] = DOMAIN before[top] \cup {name}
           /\ \A other \in DOMAIN before[top] \ {name} :
                after[top][other] = before[top][other]
           /\ after[top][name].body =
                Returned.node.children[Len(Returned.node.children)]
           /\ Len(after[top][name].params) = Len(Returned.node.children) - 2
           /\ \A k \in 1..Len(after[top][name].params) :
                after[top][name].params[k] = Returned.node.children[k + 1].token.value
           /\ machine.ctx.variables = Returned.entry.variables
  /\ (CallReturned /\ Returned.node.children # <<>>) =>
       LET name == Returned.node.token.value
           stack == Returned.entry.functions
       IN  IF name \notin FunctionNames(Returned.entry)
             THEN machine.ret = Err("UnsetFunction", name, Returned.node.token.pos)
             ELSE \E k \in 1..Len(stack) :
                    /\ IsInnermostBinder(stack, name, k)
                    /\ Returned.fbody = stack[k][name].body
                    /\ Returned.fparams = stack[k][name].params
  /\ machine.status = "done" =>
       /\ lexer.input = Src_FnRedefine => machine.ret = Ok(INTEGER(2))
       /\ lexer.input = Src_FnRedefineFewer => machine.ret = Ok(INTEGER(6))
       /\ lexer.input = Src_FnShadow => machine.ret = Ok(INTEGER(1))
       /\ lexer.input = Src_FnShadowInCall => machine.ret = Ok(INTEGER(3))

\* C31 witness: a call returns a value on a Context in which an inner scope
\* and an outer scope bind the called name to different definitions.
C31_Witness ==
  /\ CallReturned
  /\ Returned.node.children # <<>>
  /\ machine.ret.tag = "Ok"
  /\ LET name == Returned.node.token.value
         stack == Returned.entry.functions
     IN  \E k \in 1..Len(stack) : \E j \in 1..Len(stack) :
           /\ j < k
           /\ name \in DOMAIN stack[j]
           /\ name \in DOMAIN stack[k]
           /\ stack[j][name].params # stack[k][name].params
           /\ stack[j][name].body # stack[k][name].body

\* C32: a block without children returns NULL; a block whose child has
\* returned a value evaluates the next child, and returns that value when
\* the child was the last one.  An IF whose condition has returned a value
\* that is not a BOOL returns the error at its own position without
\* evaluating a branch; on BOOL true it evaluates its second child, on BOOL
\* false its third child when it has one and returns NULL when it has none;
\* what the branch returns is what the IF returns.  A program that ends
\* with a value ends with NULL when it is empty or when its last top-level
\* statement is an assignment, a function definition or a WHILE.
C32_ValueStep ==
  /\ Running =>
       LET f == Top(machine)
           node == f.node
           type == node.token.type
           count == Len(node.children)
           value == machine.ret.tag = "Ok"
           returns(res) ==
             /\ machine'.frames = SubSeq(machine.frames, 1, Len(machine.frames) - 1)
             /\ machine'.returned.node = node
             /\ machine'.ret = res
           evaluates(k) ==
             /\ Len(machine'.frames) = Len(machine.frames) + 1
             /\ Top(machine').node = node.children[k]
             /\ Top(machine').pc = "start"
             /\ machine'.frames[Len(machine.frames)].node = node
       IN  /\ (type \in {"BLOCK(true)", "BLOCK(false)"} /\ f.pc = "start") =>
                IF count = 0 THEN returns(Ok(NULL)) ELSE evaluates(1)
           /\ (type \in {"BLOCK(true)", "BLOCK(false)"} /\ f.pc = "child" /\ value) =>
                IF f.idx + 1 = count THEN returns(machine.ret)
                                     ELSE evaluates(f.idx + 2)
           /\ (type = "IF" /\ f.pc = "cond" /\ value) =>
                IF machine.ret.val.t # "BOOL"
                  THEN /\ returns(Err("IfConditionNotBool", <<>>, node.token.pos))
                       /\ machine'.ctx = machine.ctx
                ELSE IF machine.ret.val.b THEN evaluates(2)
                ELSE IF count = 3 THEN evaluates(3)
                ELSE returns(Ok(NULL))
           /\ (type = "IF" /\ f.pc = "branch") => returns(machine.ret)
  /\ (machine'.status = "done" /\ machine'.ret.tag = "Ok") =>
       LET root == machine'.returned.node
           count == Len(root.children)
       IN  /\ count = 0 => machine'.ret = Ok(NULL)
           /\ (count > 0 /\ root.children[count].token.type \in {"ASSIGN", "FN", "WHILE"}) =>
                machine'.ret = Ok(NULL)
  /\ machine'.status = "done" =>
       /\ lexer.input = Src_Empty => machine'.ret = Ok(NULL)
       /\ lexer.input = Src_LastIsAssign => machine'.ret = Ok(NULL)
       /\ lexer.input = Src_LastIsFnDef => machine'.ret = Ok(NULL)
       /\ lexer.input = Src_LastIsWhile => machine'.ret = Ok(NULL)
       /\ lexer.input = Src_LastIsEmptyBlock => machine'.ret = Ok(NULL)
       /\ lexer.input = Src_LastIsBlock => machine'.ret = Ok(INTEGER(3))
       /\ lexer.input = Src_IfThenValue => machine'.ret = Ok(INTEGER(7))
       /\ lexer.input = Src_IfElseValue => machine'.ret = Ok(INTEGER(8))
       /\ lexer.input = Src_IfFalseNoElse => machine'.ret = Ok(NULL)
       /\ lexer.input = Src_IfTrueNoElse => machine'.ret = Ok(INTEGER(9))
       /\ lexer.input = Src_IfEmptyThen => machine'.ret = Ok(NULL)
       /\ lexer.input = Src_IfNotBoolBranches =>
            machine'.ret = Err("IfConditionNotBool", <<>>, 0)

C32_BlockAndIfYieldLastValue == [][C32_ValueStep]_vars

\* C32 witness: `if (1 == 2) { 7 } else { 8 }` has ended with INTEGER(8),
\* the value of the else-block of the IF that is the last statement of the
\* program.
C32_Witness ==
  /\ machine.status = "done"
  /\ Returned.node.token.type = "BLOCK(true)"
  /\ Returned.node.children # <<>>
  /\ LET last == Returned.node.children[Len(Returned.node.children)]
     IN  /\ last.token.type = "IF"
         /\ Len(last.children) = 3
         /\ last.children[3].children # <<>>
  /\ machine.ret = Ok(INTEGER(8))

=============================================================================
